---- MODULE Spec2Model ----
(***************************************************************************)
(* Model of the EEW posting pipeline of eew4reso:                          *)
(*   EEWParser.getSeverityLevel / isSignificantUpdate  (eew-parser.ts)     *)
(*   EEWPostingService.processEEW / postEEW / shouldPost / processQueue    *)
(*                                              (eew-posting-service.ts)   *)
(*                                                                         *)
(* Numbers with one decimal place (magnitudes, severity scores, intensity  *)
(* weights) are represented in tenths: magnitude "5.7" is 57, the weight   *)
(* 5.5 is 55 and the severity 55.7 is 557.  Times are milliseconds.        *)
(* An optional value (T | null | undefined) is a sequence of length <= 1.  *)
(***************************************************************************)
EXTENDS Integers, Sequences, FiniteSets, TLC

VARIABLES
  config,          \* PostingConfig (posting + filters), fixed after construction
  now,             \* Date.now()
  lastPostTime,    \* state.lastPostTime
  lastPostedEEW,   \* state.lastPostedEEW (Null or Some(EEWData))
  postCount,       \* state.postCount
  rateLimitQueue,  \* state.rateLimitQueue
  inflight,        \* postEEW calls suspended on client.createNoteWithRetry
  nextTimestamp,   \* number of the next message handed to processEEW
  submitLog,       \* per processEEW or postEEW call from outside: when, what it did
  sinkLog,         \* per createNoteWithRetry call: message, time, issuer
  doneLog,         \* per settled createNoteWithRetry call: message, outcome
  event,           \* the handler step taken last and its result
  input,           \* the text handed to the parser (Null outside the parser)
  retry,           \* per createNoteWithRetry call: the state of its loop
  server           \* the HTTP server: its requests and stats (Null without one)

vars == <<config, now, lastPostTime, lastPostedEEW, postCount, rateLimitQueue,
          inflight, nextTimestamp, submitLog, sinkLog, doneLog, event, input,
          retry, server>>

Null == << >>
Some(x) == <<x>>
Get(o) == o[1]

Abs(x) == IF x < 0 THEN -x ELSE x
Min(a, b) == IF a < b THEN a ELSE b

(***************************************************************************)
(* Bounds of the model.                                                    *)
(***************************************************************************)
MaxSubmit == 3        \* processEEW calls per behaviour
StartTime == 10       \* Date.now() at construction (far from the epoch)
MaxTicks == 2         \* ms the clock may advance outside the waits of retries
MaxSectionDelay == 1  \* ms the clock may advance inside one synchronous section
MaxTimerSkew == 1     \* ms between a timer's due time and Date.now() in it

\* createNoteWithRetry(note, maxRetries = 3): the number of createNote calls
\* and the unit of the wait "Math.pow(2, attempt) * 1000" between them.
DefaultMaxRetries == 3
BackoffUnit == 1000

\* The waits of a createNoteWithRetry call whose every attempt fails: after
\* each attempt but the last, 2^attempt units.
RECURSIVE backoffBefore(_)
backoffBefore(attempt) ==
  IF attempt <= 1 THEN 0
  ELSE backoffBefore(attempt - 1) + 2^(attempt - 1) * BackoffUnit

(***************************************************************************)
(* EEWData.  Only the fields read by the scorer, the comparator and the    *)
(* filter are kept.                                                        *)
(***************************************************************************)
\* SeismicIntensity codes, plus "over", a value the feed uses that is not a
\* key of intensityMap.
intensityMap ==
  [c \in {"2", "3", "4", "5-", "5+", "6-", "6+", "7"} |->
     CASE c = "2" -> 20 [] c = "3" -> 30 [] c = "4" -> 40
       [] c = "5-" -> 50 [] c = "5+" -> 55
       [] c = "6-" -> 60 [] c = "6+" -> 65 [] c = "7" -> 70]

\* intensityMap is an object literal, so a lookup also finds what it inherits
\* from Object.prototype: functions, and for "__proto__" the prototype itself.
ObjectPrototypeKeys ==
  {"constructor", "hasOwnProperty", "isPrototypeOf", "propertyIsEnumerable",
   "toLocaleString", "toString", "valueOf", "__proto__", "__defineGetter__",
   "__defineSetter__", "__lookupGetter__", "__lookupSetter__"}

\* NaN, the number that is in no order relation with any number.  Every
\* other number of the model is a count of tenths and not negative.
NaN == 0 - 1

\* a < b on JavaScript numbers.
LessThan(a, b) == a # NaN /\ b # NaN /\ a < b

\* "intensityMap[to] || 0": the weight of a key, 0 for a code that the
\* object does not have, and for an inherited property a function or object,
\* which is truthy and turns into NaN in the product that follows.
lookup(to) ==
  IF to \in DOMAIN intensityMap THEN intensityMap[to]
  ELSE IF to \in ObjectPrototypeKeys THEN NaN
  ELSE 0

\* Earthquake: magnitude.value (tenths) and hypocenter.depth.value (km).
Earthquake(m, d) == [magnitude |-> m, depth |-> d]

\* Intensity: forecastMaxInt and regions (code and isWarning of each entry).
Intensity(f, t, rs) == [forecastMaxInt |-> [from |-> f, to |-> t], regions |-> rs]

IntensityRegion(c, w) == [code |-> c, isWarning |-> w]

EEWData(c, w, eq, int, regs) ==
  [isCanceled |-> c, isWarning |-> w, earthquake |-> eq, intensity |-> int,
   regions |-> regs]

(***************************************************************************)
(* EEWParser.getSeverityLevel                                              *)
(***************************************************************************)
\* getSeverityLevel without the "if (eewData.isCanceled) return 0" line.
getSeverityLevel_scoresCanceled(eewData) ==
  LET maxIntensity ==
        IF eewData.intensity # Null
        THEN lookup(Get(eewData.intensity).forecastMaxInt.to)
        ELSE 0
      magnitude ==
        IF eewData.earthquake # Null
        THEN Get(eewData.earthquake).magnitude
        ELSE 0
  IN IF maxIntensity = NaN THEN NaN ELSE maxIntensity * 10 + magnitude

getSeverityLevel(eewData) ==
  IF eewData.isCanceled THEN 0
  ELSE
    LET maxIntensity ==
          IF eewData.intensity # Null
          THEN lookup(Get(eewData.intensity).forecastMaxInt.to)
          ELSE 0
        magnitude ==
          IF eewData.earthquake # Null
          THEN Get(eewData.earthquake).magnitude
          ELSE 0
    IN IF maxIntensity = NaN THEN NaN ELSE maxIntensity * 10 + magnitude

(***************************************************************************)
(* EEWParser.isSignificantUpdate                                           *)
(***************************************************************************)
\* Math.abs(parseFloat(a) - parseFloat(b)) >= 0.2 on IEEE-754 doubles, for
\* one-decimal magnitudes 0.0 .. 9.9 given in tenths.  A difference of three
\* tenths or more is always >= 0.2 and one of a tenth or less never is; for a
\* difference of two tenths the subtraction rounds below 0.2 exactly when
\* the smaller magnitude is in RoundsBelow02.
RoundsBelow02 ==
  {1, 4, 5, 8, 10, 11, 12, 13, 15, 16, 17, 18, 21, 22, 26, 27, 31, 32, 36,
   37, 39, 44, 49, 54, 59, 64, 69, 74, 79, 80, 83, 84, 85, 88, 89, 90, 93,
   94, 95}

MagnitudeChanged(currentMag, previousMag) ==
  LET d == Abs(currentMag - previousMag)
  IN d >= 3 \/ (d = 2 /\ Min(currentMag, previousMag) \notin RoundsBelow02)

WarningRegionCodes(int) == {r.code : r \in {x \in int.regions : x.isWarning}}

\* An isSignificantUpdate that compares the warned regions both ways.
isSignificantUpdate_symmetricRegions(current, previous) ==
  IF previous = Null THEN TRUE
  ELSE LET prev == Get(previous) IN
    IF current.isCanceled # prev.isCanceled THEN TRUE
    ELSE IF current.isWarning # prev.isWarning THEN TRUE
    ELSE IF /\ current.earthquake # Null /\ prev.earthquake # Null
            /\ MagnitudeChanged(Get(current.earthquake).magnitude,
                                Get(prev.earthquake).magnitude)
         THEN TRUE
    ELSE IF /\ current.intensity # Null /\ prev.intensity # Null
            /\ \/ Get(current.intensity).forecastMaxInt.from
                    # Get(prev.intensity).forecastMaxInt.from
               \/ Get(current.intensity).forecastMaxInt.to
                    # Get(prev.intensity).forecastMaxInt.to
         THEN TRUE
    ELSE IF /\ current.intensity # Null /\ prev.intensity # Null
            /\ WarningRegionCodes(Get(current.intensity))
                 # WarningRegionCodes(Get(prev.intensity))
         THEN TRUE
    ELSE FALSE

isSignificantUpdate(current, previous) ==
  IF previous = Null THEN TRUE
  ELSE LET prev == Get(previous) IN
    IF current.isCanceled # prev.isCanceled THEN TRUE
    ELSE IF current.isWarning # prev.isWarning THEN TRUE
    ELSE IF /\ current.earthquake # Null /\ prev.earthquake # Null
            /\ MagnitudeChanged(Get(current.earthquake).magnitude,
                                Get(prev.earthquake).magnitude)
         THEN TRUE
    ELSE IF /\ current.intensity # Null /\ prev.intensity # Null
            /\ \/ Get(current.intensity).forecastMaxInt.from
                    # Get(prev.intensity).forecastMaxInt.from
               \/ Get(current.intensity).forecastMaxInt.to
                    # Get(prev.intensity).forecastMaxInt.to
         THEN TRUE
    ELSE IF /\ current.intensity # Null /\ prev.intensity # Null
            /\ \E code \in WarningRegionCodes(Get(current.intensity)) :
                 code \notin WarningRegionCodes(Get(prev.intensity))
         THEN TRUE
    ELSE FALSE

(***************************************************************************)
(* EEWPostingService.shouldPost                                            *)
(***************************************************************************)
\* PostingConfig: posting.{enabled, minSeverity, onlyWarnings,
\* includeCancellations, rateLimitMs} and filters.{minMagnitude, maxDepth,
\* allowedRegions, blockedRegions}.  minSeverity and minMagnitude in tenths.
PostingConfig(en, sev, ow, ic, rl, mm, md, ar, br) ==
  [enabled |-> en, minSeverity |-> sev, onlyWarnings |-> ow,
   includeCancellations |-> ic, rateLimitMs |-> rl,
   minMagnitude |-> mm, maxDepth |-> md,
   allowedRegions |-> ar, blockedRegions |-> br]

\* A numeric option guarded by "if (option && ...)": undefined and 0 are falsy.
Truthy(opt) == opt # Null /\ Get(opt) # 0

\* A shouldPost that lets an included cancellation through ahead of the
\* severity threshold and the earthquake filters.
shouldPost_cancelSkipsSeverity(data, cfg, last) ==
  IF data.isCanceled /\ ~cfg.includeCancellations THEN FALSE
  ELSE IF data.isCanceled
  THEN (IF last # Null THEN isSignificantUpdate(data, last) ELSE TRUE)
  ELSE IF cfg.onlyWarnings /\ ~data.isWarning THEN FALSE
  ELSE IF LessThan(getSeverityLevel(data), cfg.minSeverity) THEN FALSE
  ELSE IF last # Null THEN isSignificantUpdate(data, last)
  ELSE TRUE

shouldPost(data, cfg, last) ==
  IF data.isCanceled /\ ~cfg.includeCancellations THEN FALSE
  ELSE IF cfg.onlyWarnings /\ ~data.isWarning /\ ~data.isCanceled THEN FALSE
  ELSE IF LessThan(getSeverityLevel(data), cfg.minSeverity) THEN FALSE
  ELSE IF /\ data.earthquake # Null
          /\ Truthy(cfg.minMagnitude)
          /\ Get(data.earthquake).magnitude < Get(cfg.minMagnitude)
       THEN FALSE
  ELSE IF /\ data.earthquake # Null
          /\ Truthy(cfg.maxDepth)
          /\ Get(data.earthquake).depth > Get(cfg.maxDepth)
       THEN FALSE
  ELSE IF /\ data.earthquake # Null
          /\ cfg.allowedRegions # Null
          /\ ~(\E code \in data.regions : code \in Get(cfg.allowedRegions))
       THEN FALSE
  ELSE IF /\ data.earthquake # Null
          /\ cfg.blockedRegions # Null
          /\ \E code \in data.regions : code \in Get(cfg.blockedRegions)
       THEN FALSE
  ELSE IF last # Null THEN isSignificantUpdate(data, last)
  ELSE TRUE

(***************************************************************************)
(* The posting service as a state machine.  A step is one synchronous      *)
(* section of the single-threaded event loop: a processEEW call up to its  *)
(* return or its first suspension, or the continuation of postEEW after    *)
(* client.createNoteWithRetry has settled.                                 *)
(***************************************************************************)
EEWMessage(ts, data) == [timestamp |-> ts, data |-> data]

\* Alerts submitted to the service: the sample warning of the test suite
\* (M5.7, 5-), its revision to M6.0 and a cancellation.
SampleIntensity == Some(Intensity("5-", "5-", {IntensityRegion("390", TRUE)}))
W57 == EEWData(FALSE, TRUE, Some(Earthquake(57, 10)), SampleIntensity, {"390"})
W60 == EEWData(FALSE, TRUE, Some(Earthquake(60, 10)), SampleIntensity, {"390"})
CancelData == EEWData(TRUE, FALSE, Null, Null, {})

ServiceAlerts == {W57, W60, CancelData}

\* The warnings among them.
Warnings == {W57, W60}

\* An earthquake object without hypocenter: extractKeyInfo reads
\* earthquake.hypocenter.depth of it and throws a TypeError.
NoHypocenter == [magnitude |-> 57]
Malformed == EEWData(FALSE, TRUE, Some(NoHypocenter), SampleIntensity, {"390"})
MalformedCancel == EEWData(TRUE, FALSE, Some(NoHypocenter), Null, {})

\* extractKeyInfo(eewData) throws instead of returning.
extractKeyInfoThrows(eewData) ==
  /\ eewData.earthquake # Null
  /\ "depth" \notin DOMAIN Get(eewData.earthquake)

\* createNoteFromEEW(message) throws: formatForMisskey and formatCustom both
\* call extractKeyInfo(message.data) first, and read after it only what
\* extractKeyInfo has built.
createNoteFromEEWThrows(message) == extractKeyInfoThrows(message.data)

\* createDefault with its rate limit scaled from 2000 ms to 2 ms, a variant
\* that posts everything at 1 ms spacing, and a disabled service.
DefaultConfig ==
  PostingConfig(TRUE, 300, FALSE, TRUE, 2, Some(30), Some(700), Null, Null)
FastConfig ==
  PostingConfig(TRUE, 0, FALSE, TRUE, 1, Null, Null, Null, Null)
DisabledConfig ==
  PostingConfig(FALSE, 300, FALSE, TRUE, 2, Some(30), Some(700), Null, Null)

ServiceConfigs == {DefaultConfig, FastConfig, DisabledConfig}

Event(op, message, result, issued, root) ==
  [op |-> op, message |-> message, result |-> result, issued |-> issued,
   root |-> root]

\* An entry of doneLog: ok says that createNoteWithRetry resolved, id that
\* the value it resolved to was a note, with an id to read, returned is the
\* value the postEEW call for this message returns.
Done(timestamp, ok, id, returned) ==
  [timestamp |-> timestamp, ok |-> ok, id |-> id, returned |-> returned]

\* A postEEW call suspended on createNoteWithRetry: its message, the time
\* the sink call was issued, who called postEEW ("processEEW",
\* "processQueue", or "postEEW" for a call from outside the class), the
\* outermost call (by message number) whose promise settles with it, and
\* the fields postEEW writes as they were when the call was issued.
Pending(message, at, via, root, before) ==
  [message |-> message, issuedAt |-> at, via |-> via, root |-> root,
   before |-> before]

\* A postEEW whose call of createNoteFromEEW stands before its try block.
postEEW_noteOutsideTry(thrown) ==
  IF thrown = "none" THEN "true"
  ELSE IF thrown = "createNoteFromEEW" THEN "throws"
  ELSE "false"

\* postEEW, lines 82-102: how its promise settles, given the statement of
\* its body that throws or rejects ("none": none does).  Every statement of
\* the body, from createNoteFromEEW to "await this.processQueue()", is
\* inside the try block, and the catch block returns false.
postEEW(thrown) ==
  IF thrown = "none" THEN "true"
  ELSE "false"

\* How the outermost postEEW settles when the postEEW called through via
\* does as above: processQueue awaits a nested postEEW inside the try block
\* of the postEEW that called it, and drops the value it gets.
rootResult(via, thrown) ==
  IF via = "processQueue"
  THEN postEEW(IF postEEW(thrown) = "throws" THEN "processQueue" ELSE "none")
  ELSE postEEW(thrown)

\* The fields postEEW writes, as they are now.
PostFields ==
  [lastPostTime |-> lastPostTime, lastPostedEEW |-> lastPostedEEW,
   postCount |-> postCount]

\* constructor
Init ==
  /\ config \in ServiceConfigs
  /\ now = StartTime
  /\ lastPostTime = 0
  /\ lastPostedEEW = Null
  /\ postCount = 0
  /\ rateLimitQueue = << >>
  /\ inflight = {}
  /\ nextTimestamp = 1
  /\ submitLog = << >>
  /\ sinkLog = << >>
  /\ doneLog = << >>
  /\ event = Event("init", Null, "none", << >>, 0)
  /\ input = Null
  /\ retry = << >>
  /\ server = Null

\* A timer that hands the oldest queued message to the sink once the clock
\* has advanced.
Tick_drains ==
  /\ now < StartTime + MaxTicks
  /\ now' = now + 1
  /\ event' = Event("tick", Null, "none", << >>, 0)
  /\ IF Len(rateLimitQueue) > 0 THEN
       /\ rateLimitQueue' = Tail(rateLimitQueue)
       /\ inflight' = inflight \cup
            {Pending(Head(rateLimitQueue), now', "processQueue", 0,
                     PostFields)}
       /\ sinkLog' = Append(sinkLog,
            [timestamp |-> Head(rateLimitQueue).timestamp, at |-> now',
             via |-> "processQueue"])
     ELSE UNCHANGED <<rateLimitQueue, inflight, sinkLog>>
  /\ UNCHANGED <<server, input, retry, config, lastPostTime, lastPostedEEW,
                 postCount, nextTimestamp, submitLog, doneLog>>

\* The clock advances while the event loop is idle.
Tick ==
  /\ now < StartTime + MaxTicks
  /\ now' = now + 1
  /\ event' = Event("tick", Null, "none", << >>, 0)
  /\ UNCHANGED <<server, input, retry, config, lastPostTime, lastPostedEEW, postCount,
                 rateLimitQueue, inflight, nextTimestamp, submitLog, sinkLog,
                 doneLog>>

\* processEEW with the spacing test written "<=".
processEEW_spacingInclusive(message, cfg, last, lastPost, queue, t) ==
  IF ~cfg.enabled
  THEN [outcome |-> "disabled", queue |-> queue, post |-> << >>]
  ELSE IF ~shouldPost(message.data, cfg, last)
  THEN [outcome |-> "filtered", queue |-> queue, post |-> << >>]
  ELSE IF t - lastPost <= cfg.rateLimitMs
  THEN [outcome |-> "queued", queue |-> Append(queue, message), post |-> << >>]
  ELSE [outcome |-> "posting", queue |-> queue, post |-> <<message>>]

\* processEEW that parks a filtered alert in the queue.
processEEW_queuesFiltered(message, cfg, last, lastPost, queue, t) ==
  IF ~cfg.enabled
  THEN [outcome |-> "disabled", queue |-> queue, post |-> << >>]
  ELSE IF ~shouldPost(message.data, cfg, last)
  THEN [outcome |-> "filtered", queue |-> Append(queue, message), post |-> << >>]
  ELSE IF t - lastPost < cfg.rateLimitMs
  THEN [outcome |-> "queued", queue |-> Append(queue, message), post |-> << >>]
  ELSE [outcome |-> "posting", queue |-> queue, post |-> <<message>>]

\* processEEW(message): what the call does, given the state it reads and
\* Date.now() = t.  post holds the message handed to postEEW, if any.
processEEW(message, cfg, last, lastPost, queue, t) ==
  IF ~cfg.enabled
  THEN [outcome |-> "disabled", queue |-> queue, post |-> << >>]
  ELSE IF ~shouldPost(message.data, cfg, last)
  THEN [outcome |-> "filtered", queue |-> queue, post |-> << >>]
  ELSE IF t - lastPost < cfg.rateLimitMs
  THEN [outcome |-> "queued", queue |-> Append(queue, message), post |-> << >>]
  ELSE [outcome |-> "posting", queue |-> queue, post |-> <<message>>]

\* A processEEW that resolves to true for a message it queued.
CallProcessEEW_trueWhenQueued(data) ==
  /\ LET message == EEWMessage(nextTimestamp, data)
         call == processEEW(message, config, lastPostedEEW, lastPostTime,
                            rateLimitQueue, now)
     IN
     /\ nextTimestamp' = nextTimestamp + 1
     /\ submitLog' = Append(submitLog, [at |-> now, outcome |-> call.outcome])
     /\ rateLimitQueue' = call.queue
     /\ IF call.post # << >> THEN
          /\ inflight' = inflight \cup
               {Pending(message, now, "processEEW", message.timestamp, PostFields)}
          /\ sinkLog' = Append(sinkLog,
               [timestamp |-> message.timestamp, at |-> now, via |-> "processEEW"])
          /\ event' = Event("processEEW", Some(message), "pending",
                            call.post, message.timestamp)
        ELSE
          /\ event' = Event("processEEW", Some(message),
                            IF call.outcome = "queued" THEN "true" ELSE "false",
                            << >>, 0)
          /\ UNCHANGED <<inflight, sinkLog>>
  /\ UNCHANGED <<input, retry, config, now, lastPostTime, lastPostedEEW,
                 postCount, doneLog>>

\* A processEEW call, up to "return false" or to the suspension of postEEW on
\* createNoteWithRetry: what it does to the service and its records.
CallProcessEEW(data) ==
  /\ LET message == EEWMessage(nextTimestamp, data)
         call == processEEW(message, config, lastPostedEEW, lastPostTime,
                            rateLimitQueue, now)
     IN
     /\ nextTimestamp' = nextTimestamp + 1
     /\ submitLog' = Append(submitLog, [at |-> now, outcome |-> call.outcome])
     /\ rateLimitQueue' = call.queue
     /\ IF call.post # << >> THEN
          /\ inflight' = inflight \cup
               {Pending(message, now, "processEEW", message.timestamp, PostFields)}
          /\ sinkLog' = Append(sinkLog,
               [timestamp |-> message.timestamp, at |-> now, via |-> "processEEW"])
          /\ event' = Event("processEEW", Some(message), "pending",
                            call.post, message.timestamp)
        ELSE
          /\ event' = Event("processEEW", Some(message), "false", << >>, 0)
          /\ UNCHANGED <<inflight, sinkLog>>
  /\ UNCHANGED <<input, retry, config, now, lastPostTime, lastPostedEEW,
                 postCount, doneLog>>

\* processEEW called by anyone but the request loop of the server.
ProcessEEW(data) == CallProcessEEW(data) /\ UNCHANGED server

\* postEEW called from outside the class (the method is public), up to its
\* suspension on createNoteWithRetry: neither posting.enabled nor shouldPost
\* nor the rate limit is looked at.  When createNoteFromEEW throws, the
\* catch block runs at once: no sink call is made and the call is over.
PostEEW(data) ==
  /\ LET message == EEWMessage(nextTimestamp, data) IN
     IF createNoteFromEEWThrows(message) THEN
       /\ event' = Event("postEEW", Some(message),
                         rootResult("postEEW", "createNoteFromEEW"), << >>,
                         message.timestamp)
       /\ UNCHANGED <<inflight, sinkLog>>
     ELSE
       /\ inflight' = inflight \cup
            {Pending(message, now, "postEEW", message.timestamp, PostFields)}
       /\ sinkLog' = Append(sinkLog,
            [timestamp |-> message.timestamp, at |-> now, via |-> "postEEW"])
       /\ event' = Event("postEEW", Some(message), "pending", <<message>>,
                         message.timestamp)
  /\ nextTimestamp' = nextTimestamp + 1
  /\ submitLog' = Append(submitLog, [at |-> now, outcome |-> "direct"])
  /\ UNCHANGED <<server, input, retry, config, now, lastPostTime,
                 lastPostedEEW, postCount, rateLimitQueue, doneLog>>

\* A processQueue that appends the message it may not post yet.
processQueue_requeuesAtTail(queue, lastPost, t, cfg) ==
  IF Len(queue) = 0 THEN [post |-> << >>, queue |-> queue]
  ELSE LET message == Head(queue)
           shifted == Tail(queue)
       IN IF t - lastPost >= cfg.rateLimitMs
          THEN [post |-> <<message>>, queue |-> shifted]
          ELSE [post |-> << >>, queue |-> shifted \o <<message>>]

\* A processQueue that pops the newest message instead of shifting the
\* oldest.
processQueue_takesNewest(queue, lastPost, t, cfg) ==
  IF Len(queue) = 0 THEN [post |-> << >>, queue |-> queue]
  ELSE LET message == queue[Len(queue)]
           shifted == SubSeq(queue, 1, Len(queue) - 1)
       IN IF t - lastPost >= cfg.rateLimitMs
          THEN [post |-> <<message>>, queue |-> shifted]
          ELSE [post |-> << >>, queue |-> shifted \o <<message>>]

\* A processQueue without the spacing check.
processQueue_skipsSpacing(queue, lastPost, t, cfg) ==
  IF Len(queue) = 0 THEN [post |-> << >>, queue |-> queue]
  ELSE [post |-> <<Head(queue)>>, queue |-> Tail(queue)]

\* A processQueue that reads the oldest message without shifting it.
processQueue_keepsPosted(queue, lastPost, t, cfg) ==
  IF Len(queue) = 0 THEN [post |-> << >>, queue |-> queue]
  ELSE IF t - lastPost >= cfg.rateLimitMs
  THEN [post |-> <<Head(queue)>>, queue |-> queue]
  ELSE [post |-> << >>, queue |-> queue]

\* processQueue, called with the queue and lastPostTime as postEEW left them,
\* at clock value t: the messages it hands to postEEW (none or one) and the
\* queue it leaves.
processQueue(queue, lastPost, t, cfg) ==
  IF Len(queue) = 0 THEN [post |-> << >>, queue |-> queue]
  ELSE LET message == Head(queue)
           shifted == Tail(queue)
       IN IF t - lastPost >= cfg.rateLimitMs
          THEN [post |-> <<message>>, queue |-> shifted]
          ELSE [post |-> << >>, queue |-> <<message>> \o shifted]

\* recordPost without "postCount++".
recordPost_noCount(message, t, count) ==
  [lastPostTime |-> t, lastPostedEEW |-> Some(message.data),
   postCount |-> count]

\* postEEW, lines 87-89: the state fields after a successful post at time t.
recordPost(message, t, count) ==
  [lastPostTime |-> t, lastPostedEEW |-> Some(message.data),
   postCount |-> count + 1]

\* postEEW after createNoteWithRetry resolved to a note: lines 87-97,
\* including the processQueue call and, when that one posts, the nested
\* postEEW up to its own suspension.  delay is the time that passes between
\* the Date.now() of postEEW and the Date.now() of processQueue.
PostSucceeded(p, delay) ==
  /\ p \in inflight
  /\ delay > 0 => now + delay <= StartTime + MaxTicks
  /\ delay > 0 => Len(rateLimitQueue) > 0
  /\ lastPostTime' = recordPost(p.message, now, postCount).lastPostTime
  /\ lastPostedEEW' = recordPost(p.message, now, postCount).lastPostedEEW
  /\ postCount' = recordPost(p.message, now, postCount).postCount
  /\ now' = now + delay
  /\ LET posted == recordPost(p.message, now, postCount)
         drained == processQueue(rateLimitQueue, lastPostTime', now', config)
     IN
     /\ rateLimitQueue' = drained.queue
     /\ IF drained.post # << >> THEN
          LET message == drained.post[1] IN
          /\ inflight' = (inflight \ {p}) \cup
               {Pending(message, now', "processQueue", p.root, posted)}
          /\ sinkLog' = Append(sinkLog,
               [timestamp |-> message.timestamp, at |-> now', via |-> "processQueue"])
          /\ event' = Event("postSucceeded", Some(p.message), "pending",
                            <<message>>, p.root)
        ELSE
          /\ inflight' = inflight \ {p}
          /\ sinkLog' = sinkLog
          /\ event' = Event("postSucceeded", Some(p.message),
                            rootResult(p.via, "none"), << >>, p.root)
  /\ doneLog' = Append(doneLog,
       Done(p.message.timestamp, TRUE, TRUE, postEEW("none")))
  /\ UNCHANGED <<server, input, retry, config, nextTimestamp, submitLog>>

\* postEEW after createNoteWithRetry resolved to undefined (createNote
\* returns response.data.createdNote, which a 200 response need not have):
\* lines 87-89 record the post, "result.id" at line 91 throws a TypeError and
\* the catch block returns false; processQueue is not called.
PostResolvedUndefined(p) ==
  /\ p \in inflight
  /\ LET posted == recordPost(p.message, now, postCount) IN
       /\ lastPostTime' = posted.lastPostTime
       /\ lastPostedEEW' = posted.lastPostedEEW
       /\ postCount' = posted.postCount
  /\ inflight' = inflight \ {p}
  /\ doneLog' = Append(doneLog,
       Done(p.message.timestamp, TRUE, FALSE, postEEW("result.id")))
  /\ event' = Event("postResolvedUndefined", Some(p.message),
                    rootResult(p.via, "result.id"), << >>, p.root)
  /\ UNCHANGED <<server, input, retry, config, now, rateLimitQueue,
                 nextTimestamp, submitLog, sinkLog>>

\* The catch block of postEEW, run at clock value t after
\* createNoteWithRetry rejected.  A postEEW called by processQueue returns
\* false to processQueue, which ignores it, and the postEEW that drained
\* returns true.
catchRejected(p, t) ==
  /\ p \in inflight
  /\ now' = t
  /\ inflight' = inflight \ {p}
  /\ doneLog' = Append(doneLog,
       Done(p.message.timestamp, FALSE, FALSE, postEEW("createNoteWithRetry")))
  /\ event' = Event("postFailed", Some(p.message),
                    rootResult(p.via, "createNoteWithRetry"), << >>, p.root)
  /\ UNCHANGED <<server, input, retry, config, lastPostTime, lastPostedEEW,
                 postCount, rateLimitQueue, nextTimestamp, submitLog, sinkLog>>

\* postEEW after createNoteWithRetry rejected.  The call rejects after its
\* last attempt only, so the waits between the attempts (2 s and 4 s) have
\* passed since the sink call was issued.  The clock is set to the earliest
\* value Date.now() can have by then, each of the two timers having fired
\* MaxTimerSkew early; the time the attempts themselves take moves it on
\* no further here.
PostFailed(p) ==
  LET timers == DefaultMaxRetries - 1
      earliest == p.issuedAt + backoffBefore(DefaultMaxRetries)
                    - timers * MaxTimerSkew
  IN catchRejected(p, IF now < earliest THEN earliest ELSE now)

Next ==
  \/ Tick
  \/ \E data \in Warnings :
       nextTimestamp <= MaxSubmit /\ ProcessEEW(data)
  \/ \E p \in inflight, delay \in 0..MaxSectionDelay : PostSucceeded(p, delay)
  \/ \E p \in inflight : PostResolvedUndefined(p)
  \/ \E p \in inflight : PostFailed(p)

Spec == Init /\ [][Next]_vars

(***************************************************************************)
(* Properties of the rate-limited delivery queue.                          *)
(***************************************************************************)
\* The message of the step taken last.
EventMessage(e) == Get(e.message)

\* The processEEW call numbered i passed the filter.
Accepted(i) == submitLog[i].outcome \in {"queued", "posting"}

\* C1: at most one delivery attempt (a postEEW suspended on
\* createNoteWithRetry) is in flight at any time.
C1_AtMostOneInFlight == Cardinality(inflight) <= 1

\* C2: any two sink invocations issued by postEEW are at least
\* posting.rateLimitMs apart, whoever issued them and however the earlier one
\* ended.
C2_SinkSpacing ==
  \A i, j \in DOMAIN sinkLog :
    i < j => sinkLog[j].at - sinkLog[i].at >= config.rateLimitMs

\* C3: a processEEW call whose alert passes the filter posts at once when
\* now - lastPostTime >= rateLimitMs; otherwise it appends the alert to the
\* tail of rateLimitQueue, issues no sink call, changes nothing else and
\* returns false.
C3_PostNowOrQueue ==
  [][(/\ event'.op = "processEEW"
      /\ config.enabled
      /\ shouldPost(EventMessage(event').data, config, lastPostedEEW))
     => LET message == EventMessage(event') IN
        IF now - lastPostTime >= config.rateLimitMs
        THEN /\ event'.issued = <<message>>
             /\ inflight' = inflight \cup
                  {Pending(message, now, "processEEW", message.timestamp, PostFields)}
             /\ Len(sinkLog') = Len(sinkLog) + 1
             /\ sinkLog'[Len(sinkLog')].timestamp = message.timestamp
             /\ sinkLog'[Len(sinkLog')].at = now
             /\ rateLimitQueue' = rateLimitQueue
        ELSE /\ rateLimitQueue' = Append(rateLimitQueue, message)
             /\ event'.issued = << >>
             /\ event'.result = "false"
             /\ UNCHANGED <<inflight, sinkLog, lastPostTime, lastPostedEEW,
                            postCount, config, now>>]_vars

\* C3 happens: a processEEW call has just appended its alert behind another
\* waiting alert.
C3_Witness ==
  /\ event.op = "processEEW"
  /\ event.result = "false"
  /\ Len(rateLimitQueue) >= 2
  /\ rateLimitQueue[Len(rateLimitQueue)] = EventMessage(event)

\* C4: when the sink call of postEEW succeeds, lastPostTime becomes the
\* current time, lastPostedEEW the data of the posted alert and postCount
\* grows by one; the drain of the queue head runs after these updates, so its
\* spacing test sees the new lastPostTime.  (A sink call that resolves
\* without a note gets the three updates and no drain.)
C4_SuccessUpdatesThenDrains ==
  [][/\ event'.op \in {"postSucceeded", "postResolvedUndefined"}
        => /\ lastPostTime' = now
           /\ lastPostedEEW' = Some(EventMessage(event').data)
           /\ postCount' = postCount + 1
     /\ event'.op = "postSucceeded"
        => IF Len(rateLimitQueue) = 0
           THEN event'.issued = << >> /\ rateLimitQueue' = rateLimitQueue
           ELSE IF now' - lastPostTime' >= config.rateLimitMs
           THEN /\ event'.issued = <<Head(rateLimitQueue)>>
                /\ rateLimitQueue' = Tail(rateLimitQueue)
           ELSE /\ event'.issued = << >>
                /\ rateLimitQueue' = rateLimitQueue
     /\ event'.op = "postResolvedUndefined"
        => /\ event'.issued = << >>
           /\ rateLimitQueue' = rateLimitQueue
           /\ sinkLog' = sinkLog]_vars

\* C4 happens: a successful post has just drained the head of the queue into
\* a new sink call.
C4_Witness ==
  /\ event.op = "postSucceeded"
  /\ event.issued # << >>
  /\ postCount >= 1
  /\ lastPostedEEW = Some(EventMessage(event).data)

\* C5: when the sink call of postEEW fails, lastPostTime, lastPostedEEW and
\* postCount have the values they had before the attempt, that is, when the
\* sink call was issued; postEEW returns false; the queue is as it was
\* before the failure was handled, no drain runs and the failed alert is
\* not put back into the queue.
C5_FailureChangesNothing ==
  [][event'.op = "postFailed"
     => /\ \A p \in inflight \ inflight' :
             /\ lastPostTime' = p.before.lastPostTime
             /\ lastPostedEEW' = p.before.lastPostedEEW
             /\ postCount' = p.before.postCount
        /\ doneLog'[Len(doneLog')].timestamp = EventMessage(event').timestamp
        /\ doneLog'[Len(doneLog')].returned = "false"
        /\ rateLimitQueue' = rateLimitQueue
        /\ event'.issued = << >>
        /\ sinkLog' = sinkLog
        /\ \A i \in DOMAIN rateLimitQueue' :
             rateLimitQueue'[i] # EventMessage(event')
        /\ inflight' = inflight \ {p \in inflight :
                                     p.message = EventMessage(event')}]_vars

\* C6: deliveries complete in submission order, and a new submission never
\* overtakes an alert that is waiting in rateLimitQueue.
C6_DeliveryInSubmissionOrder ==
  /\ \A i, j \in DOMAIN doneLog :
       (i < j /\ doneLog[i].ok /\ doneLog[j].ok)
         => doneLog[i].timestamp < doneLog[j].timestamp
  /\ \A k \in DOMAIN sinkLog, q \in DOMAIN rateLimitQueue :
       rateLimitQueue[q].timestamp < sinkLog[k].timestamp
         => sinkLog[k].via = "processQueue"

\* C7: of two accepted submissions less than rateLimitMs apart, the second
\* is queued, and its sink call, if any, is issued by a drain after the
\* interval has elapsed.
C7_SecondSubmissionIsQueued ==
  \A i, j \in DOMAIN submitLog :
    (/\ i < j
     /\ Accepted(i)
     /\ Accepted(j)
     /\ submitLog[j].at - submitLog[i].at < config.rateLimitMs)
    => /\ submitLog[j].outcome = "queued"
       /\ \A k \in DOMAIN sinkLog :
            sinkLog[k].timestamp = j
              => /\ sinkLog[k].via = "processQueue"
                 /\ sinkLog[k].at - submitLog[i].at >= config.rateLimitMs

\* C9: a processEEW call whose alert the filter rejects leaves lastPostTime,
\* lastPostedEEW, postCount and rateLimitQueue as they are, issues no sink
\* call and returns false.
C9_RejectedAlertChangesNothing ==
  [][(/\ event'.op = "processEEW"
      /\ config.enabled
      /\ ~shouldPost(EventMessage(event').data, config, lastPostedEEW))
     => /\ UNCHANGED <<lastPostTime, lastPostedEEW, postCount, rateLimitQueue,
                       inflight, sinkLog>>
        /\ event'.issued = << >>
        /\ event'.result = "false"]_vars

\* C9 happens: an alert was rejected as an insignificant update while another
\* alert was waiting in the queue.
C9_Witness ==
  /\ event.op = "processEEW"
  /\ submitLog[Len(submitLog)].outcome = "filtered"
  /\ lastPostedEEW # Null
  /\ Len(rateLimitQueue) >= 1

(***************************************************************************)
(* The scorer on its own: getSeverityLevel applied to every alert of a     *)
(* bounded input set.                                                      *)
(***************************************************************************)
\* The keys of intensityMap, "over", which the feed sends and the map does
\* not know, and three names that the map inherits.
IntensityCodes ==
  DOMAIN intensityMap \cup {"over"} \cup {"toString", "constructor", "__proto__"}

ScorerMagnitudes == {0, 5, 30, 57, 99}

ScorerInputs ==
  {EEWData(c, w, eq, int, {}) :
     c \in BOOLEAN, w \in BOOLEAN,
     eq \in {Null} \cup {Some(Earthquake(m, 10)) : m \in ScorerMagnitudes},
     int \in {Null} \cup {Some(Intensity(t, t, {})) : t \in IntensityCodes}}

ScorerInit ==
  /\ config = DefaultConfig
  /\ now = StartTime
  /\ lastPostTime = 0
  /\ lastPostedEEW = Null
  /\ postCount = 0
  /\ rateLimitQueue = << >>
  /\ inflight = {}
  /\ nextTimestamp = 1
  /\ submitLog = << >>
  /\ sinkLog = << >>
  /\ doneLog = << >>
  /\ event = Event("init", Null, "none", << >>, 0)
  /\ input = Null
  /\ retry = << >>
  /\ server = Null

\* EEWParser.getSeverityLevel(data)
GetSeverityLevel(data) ==
  /\ event.op = "init"
  /\ event' = Event("getSeverityLevel", Some(EEWMessage(0, data)),
                    getSeverityLevel(data), << >>, 0)
  /\ UNCHANGED <<server, input, retry, config, now, lastPostTime, lastPostedEEW, postCount,
                 rateLimitQueue, inflight, nextTimestamp, submitLog, sinkLog,
                 doneLog>>

ScorerNext == \E data \in ScorerInputs : GetSeverityLevel(data)

ScorerSpec == ScorerInit /\ [][ScorerNext]_vars

\* The weight table as the specification words it, in tenths.
StatedWeight(code) ==
  CASE code = "2" -> 20 [] code = "3" -> 30 [] code = "4" -> 40
    [] code = "5-" -> 50 [] code = "5+" -> 55
    [] code = "6-" -> 60 [] code = "6+" -> 65
    [] code = "7" -> 70

StatedCodes == {"2", "3", "4", "5-", "5+", "6-", "6+", "7"}

\* C10: getSeverityLevel returns 0 for a canceled alert whatever its
\* magnitude and intensity; otherwise weight * 10 + magnitude, the weight
\* taken from the upper bound of forecastMaxInt (2,3,4 -> 2,3,4; 5- -> 5;
\* 5+ -> 5.5; 6- -> 6; 6+ -> 6.5; 7 -> 7; no intensity -> 0) and the
\* magnitude 0 when absent.  It returns a number for every input.
C10_SeverityLevel ==
  event.op = "getSeverityLevel"
  => LET data == EventMessage(event).data
         magnitude == IF data.earthquake = Null THEN 0
                      ELSE Get(data.earthquake).magnitude
     IN /\ event.result \in Nat \cup {NaN}
        /\ data.isCanceled => event.result = 0
        /\ (~data.isCanceled /\ data.intensity = Null)
             => event.result = magnitude
        /\ (/\ ~data.isCanceled
            /\ data.intensity # Null
            /\ Get(data.intensity).forecastMaxInt.to \in StatedCodes)
             => event.result =
                  StatedWeight(Get(data.intensity).forecastMaxInt.to) * 10
                    + magnitude

\* C10 happens: the sample alert of the test suite, 5- with magnitude 5.7,
\* has been scored 55.7.
C10_Witness ==
  /\ event.op = "getSeverityLevel"
  /\ ~EventMessage(event).data.isCanceled
  /\ EventMessage(event).data.intensity = Some(Intensity("5-", "5-", {}))
  /\ EventMessage(event).data.earthquake = Some(Earthquake(57, 10))
  /\ event.result = 557

(***************************************************************************)
(* The filter on its own: shouldPost applied to every alert of a bounded   *)
(* input set, under every configuration of a bounded set, with nothing     *)
(* posted yet or with one alert posted.                                    *)
(***************************************************************************)
FilterConfigs ==
  {PostingConfig(TRUE, sev, ow, ic, 2, mm, md, ar, br) :
     sev \in {0, 300}, ow \in BOOLEAN, ic \in BOOLEAN,
     mm \in {Null, Some(0), Some(30)}, md \in {Null, Some(0), Some(700)},
     ar \in {Null, Some({"390"})}, br \in {Null, Some({"391"})}}

FilterEarthquakes ==
  {Null, Some(Earthquake(29, 10)), Some(Earthquake(57, 10)),
   Some(Earthquake(58, 10)), Some(Earthquake(60, 10)),
   Some(Earthquake(57, 701)), Some(Earthquake(57, 0))}

FilterIntensities ==
  {Null,
   Some(Intensity("3", "3", {IntensityRegion("390", FALSE)})),
   Some(Intensity("5-", "5-", {IntensityRegion("390", TRUE)})),
   Some(Intensity("5-", "5-", {IntensityRegion("390", TRUE),
                               IntensityRegion("391", TRUE)}))}

FilterInputs ==
  {EEWData(c, w, eq, int, regs) :
     c \in BOOLEAN, w \in BOOLEAN, eq \in FilterEarthquakes,
     int \in FilterIntensities, regs \in {{}, {"390"}, {"390", "391"}}}

\* What lastPostedEEW can hold: an alert that the filter let through.
FilterPosted == {W57, CancelData, EEWData(FALSE, TRUE, Null, SampleIntensity, {})}

FilterInit ==
  /\ config \in FilterConfigs
  /\ now = StartTime
  /\ \/ lastPostedEEW = Null /\ lastPostTime = 0 /\ postCount = 0
     \/ /\ lastPostedEEW \in {Some(d) : d \in {x \in FilterPosted :
                                                 shouldPost(x, config, Null)}}
        /\ lastPostTime = StartTime
        /\ postCount = 1
  /\ rateLimitQueue = << >>
  /\ inflight = {}
  /\ nextTimestamp = 1
  /\ submitLog = << >>
  /\ sinkLog = << >>
  /\ doneLog = << >>
  /\ event = Event("init", Null, "none", << >>, 0)
  /\ input = Null
  /\ retry = << >>
  /\ server = Null

\* this.shouldPost(message)
ShouldPost(data) ==
  /\ event.op = "init"
  /\ event' = Event("shouldPost", Some(EEWMessage(0, data)),
                    shouldPost(data, config, lastPostedEEW), << >>, 0)
  /\ UNCHANGED <<server, input, retry, config, now, lastPostTime, lastPostedEEW, postCount,
                 rateLimitQueue, inflight, nextTimestamp, submitLog, sinkLog,
                 doneLog>>

FilterNext == \E data \in FilterInputs : ShouldPost(data)

FilterSpec == FilterInit /\ [][FilterNext]_vars

\* C8: shouldPost is true exactly when: not (canceled and cancellations
\* excluded); not (onlyWarnings and neither warning nor canceled);
\* severity >= minSeverity; for an alert with an earthquake object,
\* magnitude >= minMagnitude if configured, depth <= maxDepth if configured,
\* some affected region in allowedRegions if configured, no affected region
\* in blockedRegions if configured; and the alert is a significant update of
\* lastPostedEEW if there is one.
C8_ShouldPostExactly ==
  event.op = "shouldPost"
  => LET data == EventMessage(event).data IN
     event.result =
       (/\ ~(data.isCanceled /\ ~config.includeCancellations)
        /\ ~(config.onlyWarnings /\ ~data.isWarning /\ ~data.isCanceled)
        /\ getSeverityLevel(data) >= config.minSeverity
        /\ data.earthquake # Null =>
             /\ config.minMagnitude # Null =>
                  Get(data.earthquake).magnitude >= Get(config.minMagnitude)
             /\ config.maxDepth # Null =>
                  Get(data.earthquake).depth <= Get(config.maxDepth)
             /\ config.allowedRegions # Null =>
                  \E code \in data.regions : code \in Get(config.allowedRegions)
             /\ config.blockedRegions # Null =>
                  \A code \in data.regions : code \notin Get(config.blockedRegions)
        /\ lastPostedEEW # Null => isSignificantUpdate(data, lastPostedEEW))

(***************************************************************************)
(* The comparator on its own: isSignificantUpdate applied to every pair of *)
(* alerts of a bounded input set, and to every alert with no previous one. *)
(***************************************************************************)
\* One-decimal magnitudes in tenths: neighbours a tenth apart, pairs two
\* tenths apart on both sides of the rounding of the subtraction, and pairs
\* three tenths or more apart.
ComparatorMagnitudes == {57, 58, 59, 61}

ComparatorEarthquakes ==
  {Null} \cup {Some(Earthquake(m, 10)) : m \in ComparatorMagnitudes}

ComparatorIntensities ==
  {Null,
   Some(Intensity("5-", "5-", {IntensityRegion("390", TRUE)})),
   Some(Intensity("5-", "5-", {IntensityRegion("390", TRUE),
                               IntensityRegion("391", TRUE)})),
   Some(Intensity("5-", "5-", {IntensityRegion("390", TRUE),
                               IntensityRegion("391", FALSE)})),
   Some(Intensity("4", "5-", {IntensityRegion("390", TRUE)})),
   Some(Intensity("5-", "5+", {IntensityRegion("390", TRUE)}))}

ComparatorInputs ==
  {EEWData(c, w, eq, int, {}) :
     c \in BOOLEAN, w \in BOOLEAN, eq \in ComparatorEarthquakes,
     int \in ComparatorIntensities}

\* previous is held in lastPostedEEW, as shouldPost passes it.
ComparatorInit ==
  /\ config = DefaultConfig
  /\ now = StartTime
  /\ \/ lastPostedEEW = Null /\ lastPostTime = 0 /\ postCount = 0
     \/ /\ lastPostedEEW \in {Some(d) : d \in ComparatorInputs}
        /\ lastPostTime = StartTime
        /\ postCount = 1
  /\ rateLimitQueue = << >>
  /\ inflight = {}
  /\ nextTimestamp = 1
  /\ submitLog = << >>
  /\ sinkLog = << >>
  /\ doneLog = << >>
  /\ event = Event("init", Null, "none", << >>, 0)
  /\ input = Null
  /\ retry = << >>
  /\ server = Null

\* EEWParser.isSignificantUpdate(current, previous)
IsSignificantUpdate(current) ==
  /\ event.op = "init"
  /\ event' = Event("isSignificantUpdate", Some(EEWMessage(0, current)),
                    isSignificantUpdate(current, lastPostedEEW), << >>, 0)
  /\ UNCHANGED <<server, input, retry, config, now, lastPostTime, lastPostedEEW, postCount,
                 rateLimitQueue, inflight, nextTimestamp, submitLog, sinkLog,
                 doneLog>>

ComparatorNext == \E current \in ComparatorInputs : IsSignificantUpdate(current)

ComparatorSpec == ComparatorInit /\ [][ComparatorNext]_vars

\* C11: isSignificantUpdate(current, previous) is true when previous is
\* absent, or isCanceled differs, or isWarning differs, or both magnitudes
\* are present and differ by at least 0.2, or (both intensities present)
\* either bound of the maximum intensity differs, or the warned region codes
\* of current contain a code absent from those of previous; in every other
\* case it is false.
C11_SignificantExactly ==
  event.op = "isSignificantUpdate"
  => LET current == EventMessage(event).data IN
     event.result =
       \/ lastPostedEEW = Null
       \/ LET previous == Get(lastPostedEEW) IN
          \/ current.isCanceled # previous.isCanceled
          \/ current.isWarning # previous.isWarning
          \/ /\ current.earthquake # Null
             /\ previous.earthquake # Null
             /\ Abs(Get(current.earthquake).magnitude
                    - Get(previous.earthquake).magnitude) >= 2
          \/ /\ current.intensity # Null
             /\ previous.intensity # Null
             /\ \/ Get(current.intensity).forecastMaxInt
                     # Get(previous.intensity).forecastMaxInt
                \/ WarningRegionCodes(Get(current.intensity))
                     \ WarningRegionCodes(Get(previous.intensity)) # {}

\* C12: with every other field the same in current and previous,
\* isSignificantUpdate is true for every pair of one-decimal magnitudes that
\* differ by 0.2 or more, in either direction, and false for a difference of
\* 0.1 or 0.
C12_MagnitudeStep ==
  /\ event.op = "isSignificantUpdate"
  /\ lastPostedEEW # Null
  /\ EventMessage(event).data.earthquake # Null
  /\ Get(lastPostedEEW).earthquake # Null
  /\ EventMessage(event).data =
       [Get(lastPostedEEW) EXCEPT
          !.earthquake = EventMessage(event).data.earthquake]
  => event.result =
       (Abs(Get(EventMessage(event).data.earthquake).magnitude
            - Get(Get(lastPostedEEW).earthquake).magnitude) >= 2)

(***************************************************************************)
(* JSON text and JSON.parse                                                *)
(***************************************************************************)
\* A text is a sequence of lexemes: white space, line feed, the punctuation
\* of an object, one member ("key": value) of the top-level object, a value
\* standing on its own, or a bare word that is no JSON at all.  The text of
\* a nested value is one lexeme carrying the value it denotes.
Ws == [t |-> "ws"]
Nl == [t |-> "nl"]
LBrace == [t |-> "{"]
RBrace == [t |-> "}"]
Comma == [t |-> ","]
Word(w) == [t |-> "word", w |-> w]
Literal(v) == [t |-> "literal", value |-> v]
Member(k, v) == [t |-> "member", key |-> k, value |-> v]

\* JSON values.  A string holds its characters as a text, so that a string
\* can hold JSON; "alert" is an object with the fields of EEWData.
JNull == [kind |-> "null"]
JNumber(n) == [kind |-> "number", num |-> n]
JString(text) == [kind |-> "string", str |-> text]
JObject(members) == [kind |-> "object", members |-> members]
JAlert(d) == [kind |-> "alert", data |-> d]

IsSpace(tok) == tok.t \in {"ws", "nl"}

\* String.prototype.trim
RECURSIVE trimStart(_)
trimStart(text) ==
  IF text # << >> /\ IsSpace(Head(text)) THEN trimStart(Tail(text)) ELSE text

RECURSIVE trimEnd(_)
trimEnd(text) ==
  IF text # << >> /\ IsSpace(text[Len(text)])
  THEN trimEnd(SubSeq(text, 1, Len(text) - 1))
  ELSE text

trim(text) == trimEnd(trimStart(text))

\* The members between the braces: member (, member)*.  Null when the
\* lexemes do not have that form, else the members in order.
RECURSIVE ParseMembers(_)
ParseMembers(toks) ==
  IF toks = << >> \/ Head(toks).t # "member" THEN Null
  ELSE IF Len(toks) = 1 THEN Some(toks)
  ELSE IF toks[2].t # "," THEN Null
  ELSE LET rest == ParseMembers(SubSeq(toks, 3, Len(toks))) IN
       IF rest = Null THEN Null ELSE Some(<<Head(toks)>> \o Get(rest))

\* The object a member list denotes: a repeated key keeps its last value.
ObjectOf(ms) ==
  JObject([k \in {ms[i].key : i \in DOMAIN ms} |->
             LET last == CHOOSE i \in DOMAIN ms :
                           /\ ms[i].key = k
                           /\ \A j \in DOMAIN ms : ms[j].key = k => j <= i
             IN ms[last].value])

\* JSON.parse(text): Some(value), or Null when it throws SyntaxError.
JSONparse(text) ==
  LET toks == SelectSeq(text, LAMBDA tok : ~IsSpace(tok)) IN
  IF Len(toks) = 1 /\ toks[1].t = "literal" THEN Some(toks[1].value)
  ELSE IF Len(toks) >= 2 /\ toks[1].t = "{" /\ toks[Len(toks)].t = "}"
  THEN IF Len(toks) = 2 THEN Some(JObject(<< >>))
       ELSE LET ms == ParseMembers(SubSeq(toks, 2, Len(toks) - 1)) IN
            IF ms = Null THEN Null ELSE Some(ObjectOf(Get(ms)))
  ELSE Null

\* value[key] for a value other than null: Null stands for undefined.
Prop(value, key) ==
  IF value.kind = "object" /\ key \in DOMAIN value.members
  THEN Some(value.members[key])
  ELSE Null

\* !x for a property read: undefined, null, 0 and "" are falsy.
Falsy(prop) ==
  \/ prop = Null
  \/ Get(prop).kind = "null"
  \/ Get(prop).kind = "number" /\ Get(prop).num = 0
  \/ Get(prop).kind = "string" /\ Get(prop).str = << >>

IsString(prop, w) ==
  prop # Null /\ Get(prop).kind = "string" /\ Get(prop).str = <<Word(w)>>

(***************************************************************************)
(* EEWParser.parseLine, EEWParser.parseString                              *)
(***************************************************************************)
\* A parser that lets an object through whatever its type tag is.
parseLine_anyType(line) ==
  LET trimmedLine == trim(line) IN
  IF trimmedLine = << >> THEN Null
  ELSE LET parsed == JSONparse(trimmedLine) IN
       IF parsed = Null THEN Null
       ELSE LET data == Get(parsed) IN
            IF data.kind = "null" THEN Null
            ELSE IF \/ Falsy(Prop(data, "timestamp"))
                    \/ Falsy(Prop(data, "data"))
            THEN Null
            ELSE Some(data)

\* Null or Some(message).  The SyntaxError of JSON.parse and the TypeError of
\* reading a property of null are caught and give Null.
parseLine(line) ==
  LET trimmedLine == trim(line) IN
  IF trimmedLine = << >> THEN Null
  ELSE LET parsed == JSONparse(trimmedLine) IN
       IF parsed = Null THEN Null
       ELSE LET data == Get(parsed) IN
            IF data.kind = "null" THEN Null
            ELSE IF \/ ~IsString(Prop(data, "type"), "eew")
                    \/ Falsy(Prop(data, "timestamp"))
                    \/ Falsy(Prop(data, "data"))
            THEN Null
            ELSE Some(data)

\* data.split('\n')
RECURSIVE split(_)
split(text) ==
  IF \A i \in DOMAIN text : text[i].t # "nl" THEN <<text>>
  ELSE LET i == CHOOSE i \in DOMAIN text :
                  text[i].t = "nl" /\ \A j \in 1..(i - 1) : text[j].t # "nl"
       IN <<SubSeq(text, 1, i - 1)>> \o split(SubSeq(text, i + 1, Len(text)))

\* The loop of parseString over the lines.
RECURSIVE parseLines(_)
parseLines(lines) ==
  IF lines = << >> THEN << >>
  ELSE LET message == parseLine(Head(lines)) IN
       (IF message # Null THEN <<Get(message)>> ELSE << >>)
         \o parseLines(Tail(lines))

\* A parseString that gives up at the first line parseLine rejects.
parseString_stopsAtInvalid(data) ==
  LET lines == split(data)
      rejected == {i \in DOMAIN lines : parseLine(lines[i]) = Null}
  IN IF rejected = {} THEN parseLines(lines)
     ELSE LET first == CHOOSE i \in rejected : \A j \in rejected : i <= j
          IN parseLines(SubSeq(lines, 1, first - 1))

parseString(data) == parseLines(split(data))

(***************************************************************************)
(* The parser on its own: parseLine applied to every line of a bounded set *)
(* and parseString to every text of up to MaxLines lines.  A line is       *)
(* described by how it was written, and LineText is what was written.      *)
(***************************************************************************)
MaxPad == 1     \* white space before and after a line
MaxLines == 3   \* lines of a text handed to parseString

\* Encoding A carries the alert as an object; Encoding B carries a string
\* holding the JSON text of the alert, bare or in an envelope with a schema
\* marker and a body.
EncodedAlert(d) == JString(<<Literal(JAlert(d))>>)
EncodedEnvelope(d) ==
  JString(<<LBrace, Member("_schema", JString(<<Word("eew")>>)), Comma,
            Member("body", JAlert(d)), RBrace>>)

TypeOptions ==
  {Null, Some(JString(<<Word("eew")>>)), Some(JString(<<Word("quake_info")>>)),
   Some(JString(<<Word("unknown")>>))}
TimestampOptions == {Null, Some(JNumber(0)), Some(JNumber(5))}
DataOptions ==
  {Null, Some(JNull), Some(JString(<< >>)), Some(JAlert(W57)),
   Some(JAlert(CancelData)), Some(EncodedAlert(W57)),
   Some(EncodedEnvelope(W57))}

LineItem(shape, lead, trail, type, timestamp, data, extra, literal) ==
  [shape |-> shape, lead |-> lead, trail |-> trail, type |-> type,
   timestamp |-> timestamp, data |-> data, extra |-> extra,
   literal |-> literal]

ParserItems ==
  {LineItem(shape, lead, trail, type, timestamp, data, extra, Null) :
     shape \in {"object", "truncated", "trailingComma"},
     lead \in 0..MaxPad, trail \in 0..MaxPad, type \in TypeOptions,
     timestamp \in TimestampOptions, data \in DataOptions,
     extra \in BOOLEAN}
  \cup {LineItem(shape, lead, trail, Null, Null, Null, FALSE, Null) :
          shape \in {"blank", "words"}, lead \in 0..MaxPad,
          trail \in 0..MaxPad}
  \cup {LineItem("literal", lead, trail, Null, Null, Null, FALSE, Some(v)) :
          lead \in 0..MaxPad, trail \in 0..MaxPad,
          v \in {JNull, JNumber(1), JString(<<Word("eew")>>)}}

\* The members written between the braces, in the order written.
ItemMembers(item) ==
  (IF item.extra THEN <<Member("invalid", JString(<<Word("data")>>))>>
   ELSE << >>)
  \o (IF item.type # Null THEN <<Member("type", Get(item.type))>> ELSE << >>)
  \o (IF item.timestamp # Null
      THEN <<Member("timestamp", Get(item.timestamp))>> ELSE << >>)
  \o (IF item.data # Null THEN <<Member("data", Get(item.data))>> ELSE << >>)

RECURSIVE JoinMembers(_)
JoinMembers(ms) ==
  IF Len(ms) <= 1 THEN ms
  ELSE <<Head(ms), Comma>> \o JoinMembers(Tail(ms))

Padding(n) == [i \in 1..n |-> Ws]

LineText(item) ==
  Padding(item.lead)
  \o (CASE item.shape = "blank" -> << >>
        [] item.shape = "words" -> <<Word("invalid"), Ws, Word("json")>>
        [] item.shape = "literal" -> <<Literal(Get(item.literal))>>
        [] item.shape = "truncated" ->
             <<LBrace>> \o JoinMembers(ItemMembers(item))
        [] item.shape = "trailingComma" ->
             <<LBrace>> \o JoinMembers(ItemMembers(item)) \o <<Comma, RBrace>>
        [] item.shape = "object" ->
             <<LBrace>> \o JoinMembers(ItemMembers(item)) \o <<RBrace>>)
  \o Padding(item.trail)

\* The lines of a text, joined by line feeds.
RECURSIVE InputText(_)
InputText(items) ==
  IF items = << >> THEN << >>
  ELSE IF Len(items) = 1 THEN LineText(items[1])
  ELSE LineText(Head(items)) \o <<Nl>> \o InputText(Tail(items))

SampleLine ==
  LineItem("object", 0, 0, Some(JString(<<Word("eew")>>)), Some(JNumber(5)),
           Some(JAlert(W57)), FALSE, Null)

BatchItems ==
  {SampleLine,
   [SampleLine EXCEPT !.data = Some(JAlert(CancelData))],
   [SampleLine EXCEPT !.type = Some(JString(<<Word("unknown")>>))],
   [SampleLine EXCEPT !.timestamp = Null],
   [SampleLine EXCEPT !.shape = "truncated"],
   LineItem("words", 0, 0, Null, Null, Null, FALSE, Null),
   LineItem("blank", 0, 0, Null, Null, Null, FALSE, Null)}

RECURSIVE Batches(_)
Batches(n) ==
  IF n = 0 THEN {<< >>}
  ELSE LET shorter == Batches(n - 1) IN
       shorter \cup {Append(b, item) :
                       b \in {x \in shorter : Len(x) = n - 1},
                       item \in BatchItems}

ParserInputs ==
  {<<item>> : item \in ParserItems} \cup (Batches(MaxLines) \ {<< >>})

ParserInit ==
  /\ config = DefaultConfig
  /\ now = StartTime
  /\ lastPostTime = 0
  /\ lastPostedEEW = Null
  /\ postCount = 0
  /\ rateLimitQueue = << >>
  /\ inflight = {}
  /\ nextTimestamp = 1
  /\ submitLog = << >>
  /\ sinkLog = << >>
  /\ doneLog = << >>
  /\ event = Event("init", Null, "none", << >>, 0)
  /\ input \in {Some(items) : items \in ParserInputs}
  /\ retry = << >>
  /\ server = Null

\* EEWParser.parseLine(line)
ParseLine ==
  /\ event.op = "init"
  /\ Len(Get(input)) = 1
  /\ event' = Event("parseLine", Null, parseLine(InputText(Get(input))),
                    << >>, 0)
  /\ UNCHANGED <<server, input, retry, config, now, lastPostTime, lastPostedEEW,
                 postCount, rateLimitQueue, inflight, nextTimestamp,
                 submitLog, sinkLog, doneLog>>

\* EEWParser.parseString(data)
ParseString ==
  /\ event.op = "init"
  /\ event' = Event("parseString", Null, parseString(InputText(Get(input))),
                    << >>, 0)
  /\ UNCHANGED <<server, input, retry, config, now, lastPostTime, lastPostedEEW,
                 postCount, rateLimitQueue, inflight, nextTimestamp,
                 submitLog, sinkLog, doneLog>>

ParserNext == ParseLine \/ ParseString

ParserSpec == ParserInit /\ [][ParserNext]_vars

\* The line handed to parseLine, as it was written.
ParsedItem == Get(input)[1]

\* The object a line written as a complete object denotes.
WrittenMessage(item) == ObjectOf(ItemMembers(item))

Present(prop) == prop # Null /\ Get(prop).kind # "null"

\* C13 as stated: parseLine returns null for an empty or whitespace-only
\* line, malformed JSON, a JSON value missing type, timestamp or data, or a
\* type tag other than 'eew'; for a JSON object with type 'eew' and present
\* timestamp and data it returns the message with those fields unchanged.
C13_PresentFieldsAccepted ==
  event.op = "parseLine"
  => IF /\ ParsedItem.shape = "object"
        /\ IsString(ParsedItem.type, "eew")
        /\ Present(ParsedItem.timestamp)
        /\ Present(ParsedItem.data)
     THEN /\ event.result # Null
          /\ Prop(Get(event.result), "type") = ParsedItem.type
          /\ Prop(Get(event.result), "timestamp") = ParsedItem.timestamp
          /\ Prop(Get(event.result), "data") = ParsedItem.data
     ELSE event.result = Null

\* C13, amended: parseLine never lets an exception escape; it returns null
\* for an empty or whitespace-only line, malformed JSON, a JSON value that
\* is not an object, an object whose type is not 'eew', and an object whose
\* timestamp or data is missing or falsy (null, 0, ""); for a JSON object
\* with type 'eew' and truthy timestamp and data it returns the message with
\* those fields unchanged.
C13_TruthyFieldsAccepted ==
  event.op = "parseLine"
  => IF /\ ParsedItem.shape = "object"
        /\ IsString(ParsedItem.type, "eew")
        /\ ~Falsy(ParsedItem.timestamp)
        /\ ~Falsy(ParsedItem.data)
     THEN /\ event.result = Some(WrittenMessage(ParsedItem))
          /\ Prop(Get(event.result), "type") = ParsedItem.type
          /\ Prop(Get(event.result), "timestamp") = ParsedItem.timestamp
          /\ Prop(Get(event.result), "data") = ParsedItem.data
     ELSE event.result = Null

\* C13 happens: a complete object with type 'eew', the alert as data and
\* timestamp 0 has been parsed and rejected.
C13_Witness ==
  /\ event.op = "parseLine"
  /\ ParsedItem.shape = "object"
  /\ IsString(ParsedItem.type, "eew")
  /\ ParsedItem.timestamp = Some(JNumber(0))
  /\ ParsedItem.data = Some(JAlert(W57))
  /\ event.result = Null

\* A line written as a complete object with type 'eew' and truthy timestamp
\* and data.
ValidItem(item) ==
  /\ item.shape = "object"
  /\ IsString(item.type, "eew")
  /\ ~Falsy(item.timestamp)
  /\ ~Falsy(item.data)

RECURSIVE ValidMessages(_)
ValidMessages(items) ==
  IF items = << >> THEN << >>
  ELSE (IF ValidItem(Head(items)) THEN <<WrittenMessage(Head(items))>>
        ELSE << >>)
       \o ValidMessages(Tail(items))

\* C14: for any sequence of input lines, parseString returns exactly the
\* messages of the valid lines, in input order, however many invalid or
\* empty lines are interleaved, and no exception escapes.
C14_BatchKeepsValidLines ==
  event.op = "parseString" => event.result = ValidMessages(Get(input))

\* C14 happens: a text of two valid lines with an invalid line between them
\* has been parsed into the two messages.
C14_Witness ==
  /\ event.op = "parseString"
  /\ Len(Get(input)) = 3
  /\ ValidItem(Get(input)[1])
  /\ Get(input)[2].shape = "words"
  /\ ValidItem(Get(input)[3])
  /\ Get(input)[1] # Get(input)[3]
  /\ event.result = <<WrittenMessage(Get(input)[1]),
                      WrittenMessage(Get(input)[3])>>

\* The cause of a rejection, as the taxonomy names it ("none" for a line
\* that is accepted or empty).
RejectionKind(item) ==
  CASE item.shape \in {"words", "truncated", "trailingComma"} -> "ParseError"
    [] item.shape = "blank" -> "none"
    [] item.shape = "literal" -> "ValidationError"
    [] item.shape = "object" ->
         IF item.type # Null /\ ~IsString(item.type, "eew")
         THEN "UnsupportedFormatError"
         ELSE IF ValidItem(item) THEN "none" ELSE "ValidationError"

\* C15: the result of parseLine tells the kind of rejection: a line rejected
\* as malformed JSON (ParseError), one rejected as an incomplete envelope
\* (ValidationError) and one rejected for its type tag
\* (UnsupportedFormatError) never give the same result.
C15_RejectionKindReported ==
  event.op = "parseLine" /\ RejectionKind(ParsedItem) # "none"
  => \A other \in ParserItems :
       RejectionKind(other) \notin {"none", RejectionKind(ParsedItem)}
       => parseLine(LineText(other)) # event.result

\* C16: when data is a JSON-encoded string, the message parseLine returns
\* carries the canonical object: the body of the re-parsed value when that
\* value has a schema marker and a body, else the re-parsed value.
C16_EncodedDataReparsed ==
  /\ event.op = "parseLine"
  /\ event.result # Null
  /\ Get(Prop(WrittenMessage(ParsedItem), "data")).kind = "string"
  => LET reparsed ==
           Get(JSONparse(Get(Prop(WrittenMessage(ParsedItem), "data")).str))
         canonical ==
           IF Prop(reparsed, "_schema") # Null /\ Prop(reparsed, "body") # Null
           THEN Get(Prop(reparsed, "body"))
           ELSE reparsed
     IN /\ Get(Prop(Get(event.result), "data")).kind = "alert"
        /\ Get(Prop(Get(event.result), "data")) = canonical

(***************************************************************************)
(* Claims on the posting service: results, the queue                       *)
(***************************************************************************)
\* The createNoteWithRetry call for the alert that processEEW handed to
\* postEEW (event.root) has settled, with a note or without one.
RootSettled(id) ==
  \E i \in DOMAIN doneLog :
    doneLog[i].timestamp = event.root /\ doneLog[i].id = id

\* C17: postEEW never rejects or throws, whatever the sink or the note
\* construction does.  Every postEEW call whose sink call has settled
\* returns a boolean, true exactly when the sink gave a note for its alert.
\* When a postEEW call settles or continues, the postEEW that processEEW or
\* an outside caller awaits is still pending or resolves to a boolean; it
\* resolves to false when createNoteFromEEW threw (no sink call is made
\* then), when the sink call for its own alert failed and when that call
\* gave no note, never when it gave a note; and it resolves to true only
\* when its own alert was posted, also when the sink call that failed was
\* one issued by a nested drain.
C17_PostResolvesToOutcome ==
  /\ \A i \in DOMAIN doneLog :
       /\ doneLog[i].returned \in {"true", "false"}
       /\ doneLog[i].returned = "true" <=> doneLog[i].id
  /\ event.op \in {"postEEW", "postSucceeded", "postResolvedUndefined",
                   "postFailed"}
     => /\ event.result \in {"true", "false", "pending"}
        /\ event.op = "postEEW"
             => /\ event.result \in {"false", "pending"}
                /\ event.result = "false"
                     <=> createNoteFromEEWThrows(EventMessage(event))
                /\ event.result = "false"
                     => \A k \in DOMAIN sinkLog :
                          sinkLog[k].timestamp # event.root
        /\ event.op # "postEEW"
             => (event.result = "false"
                   <=> /\ event.op \in {"postFailed", "postResolvedUndefined"}
                       /\ EventMessage(event).timestamp = event.root)
        /\ event.op # "postEEW" /\ event.result = "false"
             => RootSettled(FALSE)
        /\ event.result = "false" => ~RootSettled(TRUE)
        /\ event.result = "true" => RootSettled(TRUE) /\ ~RootSettled(FALSE)
        /\ event.op = "postFailed"
           /\ EventMessage(event).timestamp = event.root
             => \E i \in DOMAIN doneLog :
                  doneLog[i].timestamp = event.root /\ ~doneLog[i].ok
        /\ event.op \in {"postFailed", "postResolvedUndefined"}
           /\ EventMessage(event).timestamp # event.root
             => event.result = "true"

\* C17 happens: a postEEW call from outside has returned false because the
\* note could not be built; the sink call for an alert taken from the queue
\* by a drain has failed, after the waits of the retry loop, and the postEEW
\* that drained has resolved to true.
C17_Witness ==
  /\ event.op = "postFailed"
  /\ EventMessage(event).timestamp # event.root
  /\ event.result = "true"
  /\ RootSettled(TRUE)
  /\ now >= StartTime + backoffBefore(DefaultMaxRetries) - 2 * MaxTimerSkew
  /\ \E i \in DOMAIN submitLog :
       /\ submitLog[i].outcome = "direct"
       /\ \A k \in DOMAIN sinkLog : sinkLog[k].timestamp # i

(***************************************************************************)
(* MisskeyClient.createNoteWithRetry                                       *)
(***************************************************************************)
MaxRetrySubmit == 1      \* processEEW calls per behaviour with the loop shown

SinkErrors == {"timeout", "status500"}

\* The loop of one createNoteWithRetry call: attempt is the loop variable,
\* phase is where the call stands ("createNote": suspended on createNote,
\* "waiting": suspended on the timer, "resolved", "rejected"), calls counts
\* the createNote calls made, waits lists the delays given to setTimeout,
\* due is the clock value at which the pending timer is due (0: none).
RetryLoop(attempt, phase, calls, waits, lastError, thrown, due) ==
  [attempt |-> attempt, phase |-> phase, calls |-> calls, waits |-> waits,
   lastError |-> lastError, thrown |-> thrown, due |-> due]

\* On entry the loop has made its first createNote call.
RetryEntered == RetryLoop(1, "createNote", 1, << >>, Null, Null, 0)

\* The loop of the call for the message with this timestamp.
RetryState(ts) == IF ts \in DOMAIN retry THEN retry[ts] ELSE RetryEntered

RetryUpdated(ts, loop) ==
  [t \in DOMAIN retry \cup {ts} |-> IF t = ts THEN loop ELSE retry[t]]

\* return await this.createNote(note), createNote having resolved
createNoteResolved(loop) == [loop EXCEPT !.phase = "resolved"]

\* A catch block that backs off after the last attempt as well.
createNoteRejected_alwaysWaits(loop, error, maxRetries) ==
  [loop EXCEPT !.lastError = Some(error),
               !.phase = "waiting",
               !.waits = Append(@, 2^loop.attempt * BackoffUnit)]

\* The catch block after createNote rejected with error; after the last
\* attempt the loop is left and lastError thrown.
createNoteRejected(loop, error, maxRetries) ==
  IF loop.attempt < maxRetries
  THEN [loop EXCEPT !.lastError = Some(error),
                    !.phase = "waiting",
                    !.waits = Append(@, 2^loop.attempt * BackoffUnit)]
  ELSE [loop EXCEPT !.lastError = Some(error),
                    !.phase = "rejected",
                    !.thrown = Some(error)]

\* The timer has fired: attempt++, the loop test, the next createNote call.
timerFired(loop, maxRetries) ==
  IF loop.attempt + 1 <= maxRetries
  THEN [loop EXCEPT !.attempt = @ + 1, !.phase = "createNote",
                    !.calls = @ + 1, !.due = 0]
  ELSE [loop EXCEPT !.attempt = @ + 1, !.phase = "rejected",
                    !.thrown = loop.lastError, !.due = 0]

\* setTimeout(resolve, delay) called at clock value t: the timer is due
\* delay ms later.
timerSet(loop, t) ==
  IF loop.phase = "waiting"
  THEN [loop EXCEPT !.due = t + loop.waits[Len(loop.waits)]]
  ELSE loop

\* The loops suspended on a timer.
Waiting == {ts \in DOMAIN retry : retry[ts].phase = "waiting"}

(***************************************************************************)
(* The posting service with the loop of its sink calls shown: postEEW      *)
(* calls createNoteWithRetry(note), maxRetries taking its default.         *)
(***************************************************************************)
RetryProcessEEW(data) == nextTimestamp <= MaxRetrySubmit /\ ProcessEEW(data)

CreateNoteResolved(p) ==
  /\ p \in inflight
  /\ RetryState(p.message.timestamp).phase = "createNote"
  /\ retry' = RetryUpdated(p.message.timestamp,
                           createNoteResolved(RetryState(p.message.timestamp)))
  /\ event' = Event("createNoteResolved", Some(p.message), "pending", << >>,
                    p.root)
  /\ UNCHANGED <<server, input, config, now, lastPostTime, lastPostedEEW, postCount,
                 rateLimitQueue, inflight, nextTimestamp, submitLog, sinkLog,
                 doneLog>>

CreateNoteRejected(p, error) ==
  /\ p \in inflight
  /\ RetryState(p.message.timestamp).phase = "createNote"
  /\ retry' = RetryUpdated(p.message.timestamp,
       timerSet(createNoteRejected(RetryState(p.message.timestamp),
                                   error, DefaultMaxRetries), now))
  /\ event' = Event("createNoteRejected", Some(p.message), error, << >>,
                    p.root)
  /\ UNCHANGED <<server, input, config, now, lastPostTime, lastPostedEEW, postCount,
                 rateLimitQueue, inflight, nextTimestamp, submitLog, sinkLog,
                 doneLog>>

\* A timer fires when the delay has passed on the clock of the event loop;
\* Date.now() is another clock and reads the due time give or take skew
\* (never less than it read before).  No timer fires ahead of one that is
\* due earlier.
RetryTimerFired(p, skew) ==
  /\ p \in inflight
  /\ RetryState(p.message.timestamp).phase = "waiting"
  /\ \A ts \in Waiting : retry[ts].due >= retry[p.message.timestamp].due
  /\ now' = IF now < retry[p.message.timestamp].due + skew
            THEN retry[p.message.timestamp].due + skew ELSE now
  /\ retry' = RetryUpdated(p.message.timestamp,
                           timerFired(RetryState(p.message.timestamp),
                                      DefaultMaxRetries))
  /\ event' = Event("timerFired", Some(p.message), "pending", << >>, p.root)
  /\ UNCHANGED <<server, input, config, lastPostTime, lastPostedEEW, postCount,
                 rateLimitQueue, inflight, nextTimestamp, submitLog, sinkLog,
                 doneLog>>

\* postEEW goes on after createNoteWithRetry resolved ...
RetryPostSucceeded(p, delay) ==
  /\ RetryState(p.message.timestamp).phase = "resolved"
  /\ PostSucceeded(p, delay)

\* ... or throws at "result.id" when the note createNote resolved to is
\* undefined ...
RetryPostResolvedUndefined(p) ==
  /\ RetryState(p.message.timestamp).phase = "resolved"
  /\ PostResolvedUndefined(p)

\* ... and takes its catch block after createNoteWithRetry threw.
RetryPostFailed(p) ==
  /\ RetryState(p.message.timestamp).phase = "rejected"
  /\ catchRejected(p, now)

\* The clock advances inside the sections of postEEW and while the loop
\* waits for a backoff timer.
RetryNext ==
  \/ \E data \in ServiceAlerts : RetryProcessEEW(data)
  \/ \E p \in inflight : CreateNoteResolved(p)
  \/ \E p \in inflight, error \in SinkErrors : CreateNoteRejected(p, error)
  \/ \E p \in inflight, skew \in (0 - MaxTimerSkew)..MaxTimerSkew :
       RetryTimerFired(p, skew)
  \/ \E p \in inflight, delay \in 0..MaxSectionDelay :
       RetryPostSucceeded(p, delay)
  \/ \E p \in inflight : RetryPostResolvedUndefined(p)
  \/ \E p \in inflight : RetryPostFailed(p)

\* The service as createDefault configures it.
RetryInit == Init /\ config = DefaultConfig

RetrySpec == RetryInit /\ [][RetryNext]_vars

\* C18: one postEEW call causes at most maxRetries (3) createNote attempts;
\* the loop stops at the first attempt that succeeds; it waits 2^attempt
\* seconds between attempts and never after the last; after the last failed
\* attempt it throws the error of that attempt; and the posting service
\* makes one createNoteWithRetry call per alert, never a second, and puts no
\* failed alert back into the queue.
C18_RetryBoundedInClient ==
  [][/\ \A ts \in DOMAIN retry' :
          LET loop == retry'[ts] IN
          /\ loop.calls <= DefaultMaxRetries
          /\ loop.calls = loop.attempt
          /\ loop.waits = [k \in 1..Len(loop.waits) |-> 2^k * 1000]
          /\ Len(loop.waits) =
               IF loop.phase = "waiting" THEN loop.attempt
               ELSE loop.attempt - 1
          /\ Len(loop.waits) <= DefaultMaxRetries - 1
          /\ loop.phase = "rejected"
               => loop.calls = DefaultMaxRetries /\ loop.thrown = loop.lastError
          /\ loop.phase # "rejected" => loop.thrown = Null
     /\ \A ts \in DOMAIN retry :
          retry[ts].phase \in {"resolved", "rejected"} => retry'[ts] = retry[ts]
     /\ event'.op = "createNoteRejected"
        /\ retry'[EventMessage(event').timestamp].phase = "rejected"
          => retry'[EventMessage(event').timestamp].thrown
               = Some(event'.result)
     /\ event'.op = "createNoteRejected"
        /\ retry'[EventMessage(event').timestamp].phase = "waiting"
          => retry'[EventMessage(event').timestamp].due
               = now + 2^retry'[EventMessage(event').timestamp].attempt * 1000
     /\ event'.op = "timerFired"
          => now' >= retry[EventMessage(event').timestamp].due - MaxTimerSkew
     /\ \A i, j \in DOMAIN sinkLog' :
          sinkLog'[i].timestamp = sinkLog'[j].timestamp => i = j
     /\ event'.op = "postFailed"
          => rateLimitQueue' = rateLimitQueue /\ sinkLog' = sinkLog
    ]_vars

\* C18 happens: three createNote attempts have failed with waits of 2 s and
\* 4 s between them (the clock is 6 s on, give or take the skew of the two
\* timers), the last error was thrown, and postEEW has resolved to false.
C18_Witness ==
  /\ event.op = "postFailed"
  /\ event.result = "false"
  /\ LET loop == RetryState(EventMessage(event).timestamp) IN
     /\ loop.phase = "rejected"
     /\ loop.calls = 3
     /\ loop.waits = <<2000, 4000>>
     /\ loop.thrown # Null
     /\ now >= StartTime + 6000 - 2 * MaxTimerSkew

(***************************************************************************)
(* The posting service with room for a queue of two: up to MaxDrainSubmit  *)
(* processEEW calls, the clock advancing inside the sections of postEEW    *)
(* only.                                                                   *)
(***************************************************************************)
MaxDrainSubmit == 4

DrainNext ==
  \/ \E data \in ServiceAlerts :
       nextTimestamp <= MaxDrainSubmit /\ ProcessEEW(data)
  \/ \E p \in inflight, delay \in 0..MaxSectionDelay : PostSucceeded(p, delay)
  \/ \E p \in inflight : PostResolvedUndefined(p)
  \/ \E p \in inflight : PostFailed(p)

DrainSpec == Init /\ [][DrainNext]_vars

\* C19: a processQueue call that finds the spacing unmet leaves the queue
\* with the same contents in the same order, its head back at the front, and
\* hands nothing to the sink; and no step leaves the queue without its head
\* unless that head went to the sink in the same step.
C19_RequeueAtFront ==
  [][/\ /\ event'.op = "postSucceeded"
        /\ Len(rateLimitQueue) > 0
        /\ now' - lastPostTime' < config.rateLimitMs
        => /\ rateLimitQueue' = rateLimitQueue
           /\ event'.issued = << >>
           /\ sinkLog' = sinkLog
     /\ \/ rateLimitQueue' = rateLimitQueue
        \/ /\ event'.op = "processEEW"
           /\ rateLimitQueue' = Append(rateLimitQueue, EventMessage(event'))
        \/ /\ event'.op = "postSucceeded"
           /\ rateLimitQueue # << >>
           /\ rateLimitQueue' = Tail(rateLimitQueue)
           /\ event'.issued = <<Head(rateLimitQueue)>>
    ]_vars

\* C19 happens: a successful post has run processQueue on a queue of two
\* alerts with the spacing unmet, and both are still there.
C19_Witness ==
  /\ event.op = "postSucceeded"
  /\ event.issued = << >>
  /\ Len(rateLimitQueue) >= 2
  /\ now - lastPostTime < config.rateLimitMs

\* Alerts are numbered as they arrive, so arrival order is timestamp order.
\* C20: the alerts that went through the queue reach the sink in arrival
\* order: of two sink calls issued by drains the earlier is for the alert
\* that arrived earlier, an alert still waiting arrived after every alert a
\* drain has issued, and the queue itself is in arrival order.
C20_QueueInArrivalOrder ==
  /\ \A i, j \in DOMAIN sinkLog :
       /\ i < j
       /\ sinkLog[i].via = "processQueue"
       /\ sinkLog[j].via = "processQueue"
       => sinkLog[i].timestamp < sinkLog[j].timestamp
  /\ \A i \in DOMAIN sinkLog, k \in DOMAIN rateLimitQueue :
       sinkLog[i].via = "processQueue"
       => sinkLog[i].timestamp < rateLimitQueue[k].timestamp
  /\ \A k, l \in DOMAIN rateLimitQueue :
       k < l => rateLimitQueue[k].timestamp < rateLimitQueue[l].timestamp

\* C20 happens: two alerts that waited in the queue have both been handed to
\* the sink by drains.
C20_Witness ==
  \E i, j \in DOMAIN sinkLog :
    /\ i < j
    /\ sinkLog[i].via = "processQueue"
    /\ sinkLog[j].via = "processQueue"

(***************************************************************************)
(* The HTTP server: handleEEWReceive takes the parsed messages of a        *)
(* request through processEEW in a for loop, awaiting each call.  A        *)
(* request is taken whenever the event loop is free, also while the loops  *)
(* of earlier requests are suspended on their calls.                       *)
(***************************************************************************)

MaxRequests == 2   \* requests per behaviour
MaxMessages == 3   \* messages of all requests together

\* createMessageSummary(message) throws: a cancellation gets its summary
\* before extractKeyInfo is called.
createMessageSummaryThrows(message) ==
  ~message.data.isCanceled /\ extractKeyInfoThrows(message.data)

ServerAlerts == {W57, W60, Malformed, MalformedCancel}

ServerBatches ==
  UNION {[1..n -> ServerAlerts] : n \in 1..MaxMessages}

\* req.body as handleEEWReceive finds it: undefined (Null), or a body, given
\* by the messages lines 119-136 get from it, which may be none.
ServerBodies ==
  {Null} \cup {Some(messages) : messages \in ServerBatches \cup {<< >>}}

\* One request: the messages parsed from its body, the timestamps of the
\* messages handed to processEEW so far, the results array, and the status of
\* the response (0 as long as none was sent).
Request(messages, calls, results, status) ==
  [messages |-> messages, calls |-> calls, results |-> results,
   status |-> status]

\* The server: whether this.postingService is a service or null, the requests
\* taken so far, and stats.
Server(postingService, requests, totalReceived, totalProcessed, totalPosted, errors) ==
  [postingService |-> postingService, requests |-> requests,
   totalReceived |-> totalReceived, totalProcessed |-> totalProcessed,
   totalPosted |-> totalPosted, errors |-> errors]

PostedEntry(timestamp, posted) ==
  [timestamp |-> timestamp, kind |-> "result", posted |-> posted]
ErrorEntry(timestamp) ==
  [timestamp |-> timestamp, kind |-> "error", posted |-> FALSE]

\* The constructor of the server.  initializePostingService builds a service
\* when the credentials are set and POSTING_ENABLED is not "false", and the
\* service it builds has posting.enabled true; otherwise postingService stays
\* null.  Without a service the variables of the service are not in use and
\* keep their first values, config being that of a disabled service.
ServerInit ==
  /\ \/ /\ config \in {c \in ServiceConfigs : c.enabled}
        /\ server = Server(TRUE, << >>, 0, 0, 0, 0)
     \/ /\ config = DisabledConfig
        /\ server = Server(FALSE, << >>, 0, 0, 0, 0)
  /\ now = StartTime
  /\ lastPostTime = 0
  /\ lastPostedEEW = Null
  /\ postCount = 0
  /\ rateLimitQueue = << >>
  /\ inflight = {}
  /\ nextTimestamp = 1
  /\ submitLog = << >>
  /\ sinkLog = << >>
  /\ doneLog = << >>
  /\ event = Event("init", Null, "none", << >>, 0)
  /\ input = Null
  /\ retry = << >>

\* The processEEW call (by the timestamp of its message) that has settled
\* in the step taken last; 0 if none has.
SettledCall ==
  IF event.result \notin {"true", "false", "throws"} THEN 0
  ELSE IF event.op = "processEEW" THEN Get(event.message).timestamp
  ELSE IF event.op \in {"postSucceeded", "postResolvedUndefined", "postFailed"}
  THEN event.root
  ELSE 0

\* The loops suspended on the call that has just settled: their continuation
\* is a microtask and runs before anything else.
Resuming ==
  {i \in 1..Len(server.requests) :
     LET r == server.requests[i] IN
     /\ r.status = 0
     /\ Len(r.calls) = Len(r.results) + 1
     /\ r.calls[Len(r.calls)] = SettledCall}

\* The loops that are in their synchronous section, about to call processEEW
\* for their next message.
Running ==
  {i \in 1..Len(server.requests) :
     LET r == server.requests[i] IN
     /\ r.status = 0
     /\ Len(r.calls) = Len(r.results)
     /\ Len(r.results) < Len(r.messages)}

\* A catch block that rethrows: the request ends in the outer catch block,
\* without the entries of the remaining messages.
loopBody_aborts(srv, i, timestamp, settled) ==
  LET r == srv.requests[i]
      k == Len(r.results) + 1
      message == EEWMessage(timestamp, r.messages[k])
      posted == settled = "true"
      thrown == settled = "throws" \/ createMessageSummaryThrows(message)
      results == IF thrown THEN r.results
                 ELSE Append(r.results, PostedEntry(message.timestamp, posted))
  IN [srv EXCEPT
        !.requests[i] =
          Request(r.messages, r.calls, results,
                  IF thrown THEN 500
                  ELSE IF Len(results) = Len(r.messages) THEN 200 ELSE 0),
        !.totalPosted = @ + (IF posted THEN 1 ELSE 0),
        !.errors = @ + (IF thrown THEN 1 ELSE 0)]

\* The loop body of request i from the value of posted on, lines 150-169,
\* for the message numbered timestamp, and res.json after the last message.
\* A rejected call goes to the catch block; so does a resolved one whose
\* createMessageSummary throws while the entry is built.
loopBody(srv, i, timestamp, settled) ==
  LET r == srv.requests[i]
      k == Len(r.results) + 1
      message == EEWMessage(timestamp, r.messages[k])
      posted == settled = "true"
      thrown == settled = "throws" \/ createMessageSummaryThrows(message)
      results == Append(r.results,
                        IF thrown THEN ErrorEntry(message.timestamp)
                        ELSE PostedEntry(message.timestamp, posted))
  IN [srv EXCEPT
        !.requests[i] =
          Request(r.messages, r.calls, results,
                  IF Len(results) = Len(r.messages) THEN 200 ELSE 0),
        !.totalPosted = @ + (IF posted THEN 1 ELSE 0),
        !.errors = @ + (IF thrown THEN 1 ELSE 0)]

\* The for loop of request i on a server without posting service: line 149
\* gives posted = false without an await, so the loop runs to res.json in the
\* step that took the request.  The messages are numbered from timestamp on.
RECURSIVE loopWithoutService(_, _, _)
loopWithoutService(srv, i, timestamp) ==
  IF srv.requests[i].status # 0 THEN srv
  ELSE loopWithoutService(loopBody(srv, i, timestamp, "false"), i,
                          timestamp + 1)

\* handleEEWReceive up to its first await or to its response.  Every call
\* counts in totalReceived; a request without body and one whose body holds
\* no valid message are answered 400 at once; the others go into the loop.
Receive(body) ==
  /\ Len(server.requests) < MaxRequests
  /\ IF body = Null \/ Get(body) = << >>
     THEN /\ server' = [server EXCEPT
                          !.requests = Append(@, Request(<< >>, << >>, << >>, 400)),
                          !.totalReceived = @ + 1]
          /\ nextTimestamp' = nextTimestamp
     ELSE LET messages == Get(body)
              taken == [server EXCEPT
                          !.requests = Append(@, Request(messages, << >>, << >>, 0)),
                          !.totalReceived = @ + 1,
                          !.totalProcessed = @ + Len(messages)]
          IN /\ server.totalProcessed + Len(messages) <= MaxMessages
             /\ IF server.postingService
                THEN /\ server' = taken
                     /\ nextTimestamp' = nextTimestamp
                ELSE /\ server' = loopWithoutService(taken, Len(taken.requests),
                                                     nextTimestamp)
                     /\ nextTimestamp' = nextTimestamp + Len(messages)
  /\ event' = Event("receive", Null, "none", << >>, 0)
  /\ UNCHANGED <<input, retry, config, now, lastPostTime, lastPostedEEW,
                 postCount, rateLimitQueue, inflight, submitLog, sinkLog,
                 doneLog>>

\* A request whose body express.json rejects never reaches handleEEWReceive:
\* the error middleware, lines 43-50, counts it in stats.errors and answers
\* 500.
RejectBody ==
  /\ Len(server.requests) < MaxRequests
  /\ server' = [server EXCEPT
                  !.requests = Append(@, Request(<< >>, << >>, << >>, 500)),
                  !.errors = @ + 1]
  /\ event' = Event("rejectBody", Null, "none", << >>, 0)
  /\ UNCHANGED <<input, retry, config, now, lastPostTime, lastPostedEEW,
                 postCount, rateLimitQueue, inflight, nextTimestamp,
                 submitLog, sinkLog, doneLog>>

\* "await this.postingService.processEEW(message)" in the loop of request i,
\* with a message that processEEW takes to its return or to its suspension.
ServerProcessEEW(i) ==
  /\ i \in Running
  /\ LET r == server.requests[i]
         data == r.messages[Len(r.calls) + 1]
     IN /\ ~config.enabled \/ ~extractKeyInfoThrows(data)
        /\ CallProcessEEW(data)
  /\ server' = [server EXCEPT !.requests[i].calls = Append(@, nextTimestamp)]

\* The same call with a message on which shouldPost throws: extractKeyInfo
\* is its first statement, and processEEW rejects.
ServerProcessEEWThrows(i) ==
  /\ i \in Running
  /\ LET r == server.requests[i]
         data == r.messages[Len(r.calls) + 1]
     IN /\ config.enabled /\ extractKeyInfoThrows(data)
        /\ event' = Event("processEEW", Some(EEWMessage(nextTimestamp, data)),
                          "throws", << >>, 0)
  /\ server' = [server EXCEPT !.requests[i].calls = Append(@, nextTimestamp)]
  /\ nextTimestamp' = nextTimestamp + 1
  /\ UNCHANGED <<input, retry, config, now, lastPostTime, lastPostedEEW,
                 postCount, rateLimitQueue, inflight, submitLog, sinkLog,
                 doneLog>>

\* The continuation of the loop of request i once its call has settled.
ServerResume(i) ==
  /\ i \in Resuming
  /\ LET r == server.requests[i] IN
     server' = loopBody(server, i, r.calls[Len(r.calls)], event.result)
  /\ event' = Event("resume", Null, "none", << >>, 0)
  /\ UNCHANGED <<input, retry, config, now, lastPostTime, lastPostedEEW,
                 postCount, rateLimitQueue, inflight, nextTimestamp,
                 submitLog, sinkLog, doneLog>>

\* The continuation of a settled await runs first; a loop in its synchronous
\* section runs on to its next await; only then is the next request or the
\* next answer of the sink taken.  The clock advances at any time; the
\* continuation of a loop reads no clock, so time that passes before it is
\* shown as passing after it.
ServerNext ==
  \/ Resuming = {} /\ Tick
  \/ \E i \in Resuming : ServerResume(i)
  \/ Resuming = {} /\ \E i \in Running : ServerProcessEEW(i)
  \/ Resuming = {} /\ \E i \in Running : ServerProcessEEWThrows(i)
  \/ /\ Resuming = {} /\ Running = {}
     /\ \E body \in ServerBodies : Receive(body)
  \/ Resuming = {} /\ Running = {} /\ RejectBody
  \/ /\ Resuming = {} /\ Running = {}
     /\ \E p \in inflight, delay \in 0..MaxSectionDelay :
          PostSucceeded(p, delay)
  \/ /\ Resuming = {} /\ Running = {}
     /\ \E p \in inflight : PostResolvedUndefined(p)
  \/ /\ Resuming = {} /\ Running = {}
     /\ \E p \in inflight : PostFailed(p)

ServerSpec == ServerInit /\ [][ServerNext]_vars

\* Processing the k-th message of a request throws: in shouldPost when there
\* is a service, else in createMessageSummary.
ProcessingThrows(data) ==
  /\ extractKeyInfoThrows(data)
  /\ (server.postingService /\ config.enabled) \/ ~data.isCanceled

\* All entries of all requests, as (request, index) pairs.
Entries ==
  {c \in (1..Len(server.requests)) \X (1..MaxMessages + 1) :
     c[2] <= Len(server.requests[c[1]].results)}

\* The entries of every request so far: calls are made in batch order and
\* at most one is without entry; the entry of the k-th message is the k-th
\* one, it is an error entry exactly when processing that message threw;
\* the response is sent exactly when every message has its entry; and
\* stats.errors counts the error entries and the rejected bodies.
ResultsInBatchOrder ==
  /\ \A i \in 1..Len(server.requests) :
       LET r == server.requests[i] IN
       /\ r.status \in {0, 200, 400, 500}
       /\ Len(r.results) <= Len(r.messages)
       /\ IF server.postingService
          THEN /\ Len(r.results) <= Len(r.calls)
               /\ Len(r.calls) <= Len(r.results) + 1
               /\ Len(r.calls) <= Len(r.messages)
               /\ \A j, k \in 1..Len(r.calls) : j < k => r.calls[j] < r.calls[k]
               /\ \A k \in 1..Len(r.results) :
                    r.results[k].timestamp = r.calls[k]
          ELSE /\ r.calls = << >>
               /\ \A j, k \in 1..Len(r.results) :
                    j < k => r.results[j].timestamp < r.results[k].timestamp
       /\ \A k \in 1..Len(r.results) :
            r.results[k].kind = "error" <=> ProcessingThrows(r.messages[k])
       /\ r.status # 0 <=> Len(r.results) = Len(r.messages)
       /\ r.status = 200 <=>
            (Len(r.messages) > 0 /\ Len(r.results) = Len(r.messages))
  /\ server.errors =
       Cardinality({c \in Entries :
                      server.requests[c[1]].results[c[2]].kind = "error"})
       + Cardinality({i \in 1..Len(server.requests) :
                        server.requests[i].status = 500})

\* C21: the messages of one request go to processEEW one at a time in batch
\* order, each call made only after the previous one has resolved (its entry
\* is in results and no delivery it started is still running); an exception
\* while processing a message is recorded in that message's entry and in
\* stats.errors and does not abort the rest; the response carries exactly one
\* entry per message.
C21_BatchSequentialWithErrors ==
  [][/\ ResultsInBatchOrder'
     /\ event'.op = "processEEW" =>
          \E i \in 1..Len(server.requests) :
            LET r == server.requests[i] IN
            /\ r.status = 0
            /\ Len(r.calls) = Len(r.results)
            /\ server'.requests[i].calls
                 = Append(r.calls, Get(event'.message).timestamp)
            /\ Get(event'.message).data = r.messages[Len(r.results) + 1]
            /\ \A p \in inflight, k \in 1..Len(r.calls) : p.root # r.calls[k]
    ]_vars

\* A response to a batch whose first message threw and whose second message
\* was posted.
C21_Witness ==
  \E i \in 1..Len(server.requests) :
    LET r == server.requests[i] IN
    /\ r.status = 200
    /\ Len(r.results) >= 2
    /\ r.results[1].kind = "error"
    /\ r.results[2].posted
    /\ server.errors = 1

(***************************************************************************)
(* The service with a clock that stands still inside a synchronous         *)
(* section: Date.now() of processQueue returns what Date.now() of the      *)
(* postEEW calling it returned.  Between sections the clock advances.      *)
(***************************************************************************)

MaxInstantSubmit == 3

InstantNext ==
  \/ Tick
  \/ \E data \in Warnings :
       nextTimestamp <= MaxInstantSubmit /\ ProcessEEW(data)
  \/ \E p \in inflight : PostSucceeded(p, 0)
  \/ \E p \in inflight : PostResolvedUndefined(p)
  \/ \E p \in inflight : PostFailed(p)

InstantSpec == Init /\ [][InstantNext]_vars

\* C22: while the clock does not advance between the lastPostTime update of
\* postEEW and the spacing check of the drain it calls, and rateLimitMs > 0,
\* every drain puts its item back: no step shortens rateLimitQueue, a
\* successful post issues no sink call, and every sink call ever issued came
\* straight from processEEW.
C22_DrainNeverDelivers ==
  [][config.rateLimitMs > 0 =>
       /\ Len(rateLimitQueue') >= Len(rateLimitQueue)
       /\ SubSeq(rateLimitQueue', 1, Len(rateLimitQueue)) = rateLimitQueue
       /\ event'.op = "postSucceeded" => event'.issued = << >>
       /\ \A i \in 1..Len(sinkLog') : sinkLog'[i].via = "processEEW"]_vars

\* A post succeeded while the head of the queue had waited for the whole
\* rate limit, and the drain left it in the queue.
C22_Witness ==
  /\ event.op = "postSucceeded"
  /\ Len(rateLimitQueue) > 0
  /\ now - submitLog[Head(rateLimitQueue).timestamp].at >= config.rateLimitMs

(***************************************************************************)
(* The service left idle: the clock advances between the handler steps,    *)
(* and inside a successful postEEW before its drain.                       *)
(***************************************************************************)

MaxIdleSubmit == 3

IdleNext ==
  \/ Tick
  \/ \E data \in Warnings :
       nextTimestamp <= MaxIdleSubmit /\ ProcessEEW(data)
  \/ \E p \in inflight, delay \in 0..MaxSectionDelay : PostSucceeded(p, delay)
  \/ \E p \in inflight : PostResolvedUndefined(p)
  \/ \E p \in inflight : PostFailed(p)

IdleSpec == Init /\ [][IdleNext]_vars

\* C23: the queue is drained only as a step of a successful postEEW, there
\* is no timer: a step that is not a successful post (time passing, a
\* processEEW call, a failed post) removes nothing from rateLimitQueue and
\* issues no sink call for a queued alert, so an alert enqueued with no
\* later successful post stays queued however much time elapses.
C23_DrainOnlyOnSuccess ==
  [][event'.op # "postSucceeded" =>
       /\ Len(rateLimitQueue') >= Len(rateLimitQueue)
       /\ SubSeq(rateLimitQueue', 1, Len(rateLimitQueue)) = rateLimitQueue
       /\ \A i \in (Len(sinkLog) + 1)..Len(sinkLog') :
            sinkLog'[i].via # "processQueue"]_vars

\* Time passes with nothing in flight while the oldest queued alert and the
\* last post are both a full rate limit in the past: the alert stays queued.
C23_Witness ==
  /\ event.op = "tick"
  /\ inflight = {}
  /\ Len(rateLimitQueue) > 0
  /\ postCount > 0
  /\ now - lastPostTime >= config.rateLimitMs
  /\ now - submitLog[Head(rateLimitQueue).timestamp].at >= config.rateLimitMs

\* C24: every alert handed to the sink is a significant update of the last
\* delivered alert at the moment its sink call is issued, whether the call is
\* issued by processEEW or by the drain of a successful post.
C24_IssuedIsSignificantUpdate ==
  [][\A i \in 1..Len(event'.issued) :
       lastPostedEEW' # Null =>
         isSignificantUpdate(event'.issued[i].data, lastPostedEEW')]_vars

\* C25: a canceled alert scores 0, so shouldPost lets a cancellation through
\* only when minSeverity <= 0; with minSeverity > 0 (cancellations included
\* or not) a processEEW call for it is filtered: nothing goes to the sink and
\* the queue stays as it is.
C25_CancellationNeedsZeroSeverity ==
  (event.op = "shouldPost" /\ Get(event.message).data.isCanceled) =>
    /\ getSeverityLevel(Get(event.message).data) = 0
    /\ event.result = TRUE => config.minSeverity <= 0
    /\ config.minSeverity > 0 =>
         LET call == processEEW(Get(event.message), config, lastPostedEEW,
                                lastPostTime, rateLimitQueue, now)
         IN /\ call.outcome = "filtered"
            /\ call.post = << >>
            /\ call.queue = rateLimitQueue

\* A cancellation that still carries a shallow M5.7 earthquake and intensity
\* 5-, rejected under includeCancellations with minSeverity 30 and no other
\* filter in its way.
C25_Witness ==
  /\ event.op = "shouldPost"
  /\ Get(event.message).data.isCanceled
  /\ Get(event.message).data.earthquake = Some(Earthquake(57, 10))
  /\ Get(event.message).data.intensity = SampleIntensity
  /\ config.includeCancellations
  /\ config.minSeverity > 0
  /\ ~config.onlyWarnings
  /\ config.allowedRegions = Null /\ config.blockedRegions = Null
  /\ lastPostedEEW = Null
  /\ event.result = FALSE

\* With minSeverity 0 a cancellation does pass.
C25_PassesAtZero ==
  /\ event.op = "shouldPost"
  /\ Get(event.message).data.isCanceled
  /\ config.minSeverity = 0
  /\ event.result = TRUE

(***************************************************************************)
(* The service as its users see it: processEEW, postEEW and reset(), each  *)
(* of which may be called between any two handler steps, also while sink   *)
(* calls are in flight.                                                    *)
(***************************************************************************)

MaxResetSubmit == 3   \* processEEW and postEEW calls per behaviour

\* A reset that leaves postCount as it is.
Reset_keepsCount ==
  /\ lastPostTime' = 0
  /\ lastPostedEEW' = Null
  /\ rateLimitQueue' = << >>
  /\ event' = Event("reset", Null, "none", << >>, 0)
  /\ UNCHANGED <<server, input, retry, config, now, postCount, inflight,
                 nextTimestamp, submitLog, sinkLog, doneLog>>

\* reset(): this.state becomes a new object with the values of the
\* constructor.  A postEEW suspended on the sink reads this.state again when
\* it continues, so inflight is untouched.
Reset ==
  /\ lastPostTime' = 0
  /\ lastPostedEEW' = Null
  /\ postCount' = 0
  /\ rateLimitQueue' = << >>
  /\ event' = Event("reset", Null, "none", << >>, 0)
  /\ UNCHANGED <<server, input, retry, config, now, inflight, nextTimestamp,
                 submitLog, sinkLog, doneLog>>

ResetNext ==
  \/ \E data \in ServiceAlerts :
       nextTimestamp <= MaxResetSubmit /\ ProcessEEW(data)
  \/ \E data \in ServiceAlerts :
       nextTimestamp <= MaxResetSubmit /\ PostEEW(data)
  \/ \E p \in inflight, delay \in 0..MaxSectionDelay : PostSucceeded(p, delay)
  \/ \E p \in inflight : PostResolvedUndefined(p)
  \/ \E p \in inflight : PostFailed(p)
  \/ Reset

ResetSpec == Init /\ [][ResetNext]_vars

\* C26: under any interleaving of processEEW, drains, successes, failures
\* and reset(), postCount = 0 exactly when lastPostedEEW is null and exactly
\* when lastPostTime = 0, and postCount decreases only in a reset() step.
C26_DeliveryFieldsConsistent ==
  [][/\ postCount' = 0 <=> lastPostedEEW' = Null
     /\ postCount' = 0 <=> lastPostTime' = 0
     /\ postCount' < postCount => event'.op = "reset"]_vars

\* A delivery counted after a reset() that discarded an earlier one: two
\* sink calls have succeeded and postCount is 1.
C26_Witness ==
  /\ postCount = 1
  /\ lastPostedEEW # Null
  /\ Cardinality({i \in 1..Len(doneLog) : doneLog[i].ok}) = 2

(***************************************************************************)
(* The posting service called through both of its public methods: up to    *)
(* MaxDirectSubmit calls of processEEW and of postEEW, postEEW also with an *)
(* alert of which no note can be built, and no reset().                    *)
(***************************************************************************)
MaxDirectSubmit == 4   \* processEEW and postEEW calls per behaviour

DirectAlerts == {W57, Malformed}

DirectNext ==
  \/ \E data \in Warnings :
       nextTimestamp <= MaxDirectSubmit /\ ProcessEEW(data)
  \/ \E data \in DirectAlerts :
       nextTimestamp <= MaxDirectSubmit /\ PostEEW(data)
  \/ \E p \in inflight, delay \in 0..MaxSectionDelay : PostSucceeded(p, delay)
  \/ \E p \in inflight : PostResolvedUndefined(p)
  \/ \E p \in inflight : PostFailed(p)

DirectSpec == Init /\ [][DirectNext]_vars

\* Where the accepted alerts are, by message number.
AcceptedAlerts == {i \in 1..Len(submitLog) : Accepted(i)}
QueuedAlerts == {rateLimitQueue[k].timestamp : k \in 1..Len(rateLimitQueue)}
InFlightAlerts == {p.message.timestamp : p \in inflight}
DeliveredAlerts ==
  {doneLog[k].timestamp : k \in {j \in 1..Len(doneLog) : doneLog[j].ok}}
FailedAlerts ==
  {doneLog[k].timestamp : k \in {j \in 1..Len(doneLog) : ~doneLog[j].ok}}

\* Every alert that passed shouldPost is in exactly one of four places: in
\* rateLimitQueue (once), in flight at the sink, delivered (counted once in
\* postCount) or failed; the number of accepted alerts is queue length +
\* in-flight attempts + postCount + failed attempts.
AlertsConserved ==
  /\ AcceptedAlerts =
       QueuedAlerts \cup InFlightAlerts \cup DeliveredAlerts \cup FailedAlerts
  /\ QueuedAlerts \cap InFlightAlerts = {}
  /\ QueuedAlerts \cap DeliveredAlerts = {}
  /\ QueuedAlerts \cap FailedAlerts = {}
  /\ InFlightAlerts \cap DeliveredAlerts = {}
  /\ InFlightAlerts \cap FailedAlerts = {}
  /\ DeliveredAlerts \cap FailedAlerts = {}
  /\ Cardinality(QueuedAlerts) = Len(rateLimitQueue)
  /\ Cardinality(InFlightAlerts) = Cardinality(inflight)
  /\ Cardinality(DeliveredAlerts) = postCount
  /\ Cardinality(DeliveredAlerts) + Cardinality(FailedAlerts) = Len(doneLog)
  /\ Cardinality(AcceptedAlerts) =
       Len(rateLimitQueue) + Cardinality(inflight) + postCount
         + Cardinality(FailedAlerts)

\* postEEW has been called by processEEW and processQueue only.
NoOutsidePost ==
  \A i \in DOMAIN submitLog : submitLog[i].outcome # "direct"

\* C27 as stated: without reset(), the accepted alerts are conserved.
C27_AcceptedAlertsConserved == AlertsConserved

\* C27 with one more exception: without reset() and without a postEEW call
\* from outside processEEW and processQueue, every alert that passed
\* shouldPost is in exactly one of the four places, and the number of
\* accepted alerts is queue length + in-flight attempts + postCount + failed
\* attempts.
C27_ConservedWithoutOutsidePost == NoOutsidePost => AlertsConserved

\* All four places are occupied at once by alerts that came through
\* processEEW; the failed one failed after the waits of the retry loop.
C27_Witness ==
  /\ NoOutsidePost
  /\ Len(rateLimitQueue) = 1
  /\ Cardinality(inflight) = 1
  /\ postCount = 1
  /\ Cardinality(FailedAlerts) = 1
  /\ now >= StartTime + backoffBefore(DefaultMaxRetries) - 2 * MaxTimerSkew

\* current differs from previous at most by warned regions that previous had
\* and current has no longer.
OnlyRemovesWarnedRegions(current, previous) ==
  /\ current.isCanceled = previous.isCanceled
  /\ current.isWarning = previous.isWarning
  /\ current.earthquake = previous.earthquake
  /\ current.intensity # Null /\ previous.intensity # Null
  /\ Get(current.intensity).forecastMaxInt
       = Get(previous.intensity).forecastMaxInt
  /\ WarningRegionCodes(Get(current.intensity))
       \subseteq WarningRegionCodes(Get(previous.intensity))

\* current differs from previous only in that the earthquake object or the
\* intensity object, or both, were added or dropped as a whole.
OnlyAddsOrDropsObjects(current, previous) ==
  /\ current.isCanceled = previous.isCanceled
  /\ current.isWarning = previous.isWarning
  /\ \/ current.earthquake = previous.earthquake
     \/ current.earthquake = Null
     \/ previous.earthquake = Null
  /\ \/ current.intensity = previous.intensity
     \/ current.intensity = Null
     \/ previous.intensity = Null

\* C28: isSignificantUpdate(a, a) is false; an update that only removes
\* warned regions, or that only adds or drops the whole intensity or
\* earthquake object, is not significant; and shouldPost rejects the alert
\* stored in lastPostedEEW under every configuration.
C28_NoChangeIsNotSignificant ==
  (event.op = "isSignificantUpdate" /\ lastPostedEEW # Null) =>
    LET current == Get(event.message).data
        previous == Get(lastPostedEEW)
    IN /\ current = previous => event.result = FALSE
       /\ OnlyRemovesWarnedRegions(current, previous) => event.result = FALSE
       /\ OnlyAddsOrDropsObjects(current, previous) => event.result = FALSE
       /\ \A cfg \in FilterConfigs \cup ServiceConfigs :
            ~shouldPost(previous, cfg, lastPostedEEW)

\* The update drops one of two warned regions and is judged not significant,
\* while the reverse update would be significant.
C28_Witness ==
  /\ event.op = "isSignificantUpdate"
  /\ lastPostedEEW # Null
  /\ Get(event.message).data # Get(lastPostedEEW)
  /\ OnlyRemovesWarnedRegions(Get(event.message).data, Get(lastPostedEEW))
  /\ event.result = FALSE
  /\ isSignificantUpdate(Get(lastPostedEEW), Some(Get(event.message).data))

\* The update drops the earthquake and the intensity object and is judged
\* not significant.
C28_DropsObjects ==
  /\ event.op = "isSignificantUpdate"
  /\ lastPostedEEW # Null
  /\ Get(lastPostedEEW).earthquake # Null
  /\ Get(lastPostedEEW).intensity # Null
  /\ Get(event.message).data.earthquake = Null
  /\ Get(event.message).data.intensity = Null
  /\ event.result = FALSE

\* C29: reset() restores the initial state, and a delivery that was in
\* flight when reset() was called does not write into the state after the
\* reset: a sink call settling right after a reset() leaves the delivery
\* fields initial.
C29_ResetIsolatesInFlight ==
  [][/\ event'.op = "reset" =>
          /\ lastPostTime' = 0 /\ lastPostedEEW' = Null
          /\ postCount' = 0 /\ rateLimitQueue' = << >>
     /\ (/\ event.op = "reset"
         /\ event'.op \in {"postSucceeded", "postResolvedUndefined",
                           "postFailed"}) =>
          /\ lastPostTime' = 0 /\ lastPostedEEW' = Null
          /\ postCount' = 0]_vars

\* The sink call that processEEW itself issued for message i has resolved.
PostedDuringCall(i) ==
  /\ \E k \in 1..Len(sinkLog) :
       sinkLog[k].timestamp = i /\ sinkLog[k].via = "processEEW"
  /\ \E k \in 1..Len(doneLog) : doneLog[k].timestamp = i /\ doneLog[k].id

\* C30: a processEEW call resolves to true exactly when the sink call it
\* issued for its own alert resolved to a note, and to false when posting is
\* disabled (nothing changes, no sink call), when the alert is filtered or
\* queued and when its sink call fails; a server without posting service
\* reports false for every message; deliveries made by a drain are reported
\* to no caller, so totalPosted, the number of calls that returned true,
\* never exceeds postCount.
C30_TrueOnlyForOwnDelivery ==
  /\ \A c \in Entries :
       LET r == server.requests[c[1]] IN
       r.results[c[2]].posted <=>
         /\ server.postingService
         /\ r.results[c[2]].kind = "result"
         /\ PostedDuringCall(r.calls[c[2]])
  /\ server.totalPosted =
       Cardinality({c \in Entries : server.requests[c[1]].results[c[2]].posted})
  /\ server.totalPosted <= postCount
  /\ \A data \in ServerAlerts :
       LET call == processEEW(EEWMessage(nextTimestamp, data),
                              [config EXCEPT !.enabled = FALSE],
                              lastPostedEEW, lastPostTime, rateLimitQueue, now)
       IN /\ call.outcome = "disabled"
          /\ call.post = << >>
          /\ call.queue = rateLimitQueue
  /\ ~server.postingService =>
       /\ server.totalPosted = 0
       /\ submitLog = << >> /\ sinkLog = << >> /\ rateLimitQueue = << >>
       /\ postCount = 0 /\ lastPostTime = 0 /\ lastPostedEEW = Null

\* Every request is answered, a drain has delivered a queued alert: its
\* entry says posted false, and totalPosted is smaller than postCount.
C30_Witness ==
  /\ Len(server.requests) > 0
  /\ \A i \in 1..Len(server.requests) : server.requests[i].status = 200
  /\ server.totalPosted < postCount
  /\ \E c \in Entries :
       LET r == server.requests[c[1]] IN
       /\ ~r.results[c[2]].posted
       /\ \E j \in 1..Len(doneLog) :
            doneLog[j].timestamp = r.calls[c[2]] /\ doneLog[j].id

====
